---------------------------- MODULE Spec2Model ----------------------------
(***************************************************************************)
(* Helios intercropping scene generator: the pipeline of                   *)
(* scripts/generate_scene.py (main) and the functions it calls, as a state *)
(* machine.  One action per statement-level step of main; the calls a step *)
(* makes into the external engines (scene store, growth, ephemeris,        *)
(* radiation, renderer, file system) may raise, and an exception travels   *)
(* as Python makes it travel: through the enclosing `with` blocks (which   *)
(* release their session) to the nearest `except`, or out of main.         *)
(***************************************************************************)
EXTENDS Integers, Sequences, FiniteSets, TLC

(***************************************************************************)
(* Bounds of the model.                                                    *)
(***************************************************************************)
\* longest planting layout handed to the scene builder
MaxPlants == 1
\* primitives the growth engine adds per plant instance (at build, and again
\* when growth is advanced)
PrimsPerPlant == 1
\* soil mesh subdivisions per axis (--soil-subdivisions)
MaxSubdiv == 1
\* invocations of the position generator in one run
MaxInvocations == 2
\* draws of other code from the global generator between two invocations
MaxDraws == 2
\* runs with --save on one base directory
MaxRuns == 2
\* largest number of a folder found in the base directory before the runs
MaxFolder == 3

(***************************************************************************)
(* Program constants.                                                      *)
(***************************************************************************)
None == "None"
\* an optional number: <<>> for Python's None, <<n>> for the value n
NoValue == <<>>
\* config/defaults.py: DEFAULT_INITIAL_AGE = 5.0, DEFAULT_GROWTH_DAYS = 40
DEFAULT_INITIAL_AGE == 5
DEFAULT_GROWTH_DAYS == 40
\* config/constants.py: emergence rates 0.875 and 0.80, in thousandths
BEAN_EMERGENCE_RATE == 875
WHEAT_EMERGENCE_RATE == 800
\* geometry/soil.py create_soil_plane: margin = 0.3 m, in millimetres
create_soil_plane_margin == 300
\* camera.py 15-16: fov_degrees = 60.0, margin_factor = 1.1 (in tenths)
DEFAULT_FOV == 60
MARGIN_FACTOR == 11
\* config/constants.py: species tags of the SpeciesMap
SPECIES_BEAN == 1
SPECIES_WHEAT == 2
PLANT_PART_GROUND == "ground"
PLANT_PART_BEAN == "bean"

\* config/constants.py: the coefficient tables, in hundredths
BAND_WAVELENGTHS ==
    [Red |-> <<620, 750>>, Green |-> <<495, 570>>, Blue |-> <<450, 495>>,
     NIR |-> <<750, 1400>>]
SOLAR_IRRADIANCE == [Red |-> 900, Green |-> 900, Blue |-> 800, NIR |-> 1000]
DIFFUSE_IRRADIANCE == [Red |-> 180, Green |-> 180, Blue |-> 160, NIR |-> 200]
SOIL_REFLECTANCE == [Red |-> 35, Green |-> 25, Blue |-> 18, NIR |-> 38]
LEAF_REFLECTANCE == [Red |-> 10, Green |-> 35, Blue |-> 15, NIR |-> 50]
LEAF_TRANSMISSIVITYMutant ==
    [Red |-> 5, Green |-> 15, Blue |-> 8, NIR |-> 60]
LEAF_TRANSMISSIVITY == [Red |-> 5, Green |-> 15, Blue |-> 8, NIR |-> 40]

\* core/scene.py: the default set of required plugins, in probe order
RequiredPlugins == <<"plantarchitecture", "visualizer", "solarposition">>

\* the two exception classes main's imaging handler tells apart
ExcKinds == {"HeliosError", "Exception"}

\* the stages of the orchestrator, in pipeline order
StageOrder ==
    <<"INIT", "SCENE_BUILT", "LABELED", "SOLAR_COMPUTED", "IMAGED",
      "EXPORTED", "VISUALIZED", "DONE">>

(***************************************************************************)
(* Helpers.                                                                *)
(***************************************************************************)
Range(s) == {s[i] : i \in 1..Len(s)}

RECURSIVE SortedSeq(_)
\* a set of integers as the ascending list the scene store enumerates
SortedSeq(S) ==
    IF S = {} THEN <<>>
    ELSE LET m == CHOOSE x \in S : \A y \in S : x <= y
         IN  <<m>> \o SortedSeq(S \ {m})

RECURSIVE Flatten(_)
Flatten(ss) == IF ss = <<>> THEN <<>> ELSE Head(ss) \o Flatten(Tail(ss))

\* an intended engine call: method, string arguments, integer argument
Call(m, a, i) == [m |-> m, a |-> a, i |-> i]

\* the calls of cs that were made when call k raised (k = 0: none raised):
\* calls before k returned, call k was made and raised, later ones never ran
Logged(cs, k) ==
    [j \in 1..(IF k = 0 THEN Len(cs) ELSE k) |->
        [m |-> cs[j].m, a |-> cs[j].a, i |-> cs[j].i, ok |-> (k = 0 \/ j < k)]]

\* where a failure is explored in a block of n consecutive engine calls: no
\* call raises (0), or the first, the second or the last call raises
FailurePoints(n) == {k \in 0..n : k <= 2 \/ k = n}

\* the calls of cs that returned
Returned(cs, k) == IF k = 0 THEN cs ELSE SubSeq(cs, 1, k - 1)

VARIABLES
    args,               \* the parsed command line
    available,          \* plugins the registry reports available
    layout,             \* what the position generator returns for args
    pc,                 \* position in main
    outcome,            \* "running" | "returned0" | "returned1" | "raised"
    context,            \* TRUE once the scene context exists
    uuids,              \* primitive identities in the scene store
    primStr,            \* string primitive data: <<uuid, key, value>>
    primFloat,          \* float primitive data: <<uuid, key, value>>
    ground_uuid,        \* identity of the ground obstacle patch, 0 before
    margin,             \* soil margin returned by create_soil_plane (mm)
    positions,          \* main's positions
    plant_species_map,  \* main's plant id -> species tag
    sessions,           \* engine sessions currently open
    opened,             \* engine sessions ever opened (history)
    calls,              \* engine calls made so far (history)
    bands,              \* main's bands (inside the imaging block)
    solar_info,         \* TRUE once main holds the ephemeris record
    output_folder,      \* main's output_folder: <<>> or <<folder number>>
    primary_image,      \* main's primary_image: None or a file name
    numbered,           \* numbered run folders in the output directory
    files,              \* what the run wrote to disk
    printed,            \* messages printed
    stageLog,           \* stages entered, in order (history)
    finished,           \* stages left (history)
    gin,                \* the arguments of generate_intercrop_positions
    rng,                \* state of the global np.random generator
    results,            \* outcomes of the generator's invocations (history)
    placed,             \* instances the growth engine was asked to build
    cin,                \* plot footprint, margin and field of view (camera)
    cam,                \* soil footprint and camera poses computed for cin
    ignored,            \* output-directory entries that are no numbered folder
    folder_log          \* calls of get_next_output_folder (history)

vars ==
    <<args, available, layout, pc, outcome, context, uuids, primStr, primFloat,
      ground_uuid, margin, positions, plant_species_map, sessions, opened,
      calls, bands, solar_info, output_folder, primary_image, numbered, files,
      printed, stageLog, finished, gin, rng, results, placed, cin, cam,
      ignored, folder_log>>

inputVars == <<args, available, layout>>
pureVars == <<cin, cam, ignored, folder_log>>
sceneVars == <<context, uuids, primStr, primFloat, ground_uuid, margin>>
diskVars == <<numbered, files>>
mainVars ==
    <<positions, plant_species_map, bands, solar_info, output_folder,
      primary_image>>
genVars == <<gin, rng, results, placed>>

Species == {"bean", "wheat"}
Layouts == UNION {[1..n -> Species] : n \in 0..MaxPlants}

\* the command lines explored: every combination of the stage flags at the
\* default age (plants are grown); the no-growth age (growth_days equal to the
\* initial age) with the camera off
ArgsDefault ==
    {a \in
        {[camera |-> c, camera_type |-> t, segmentation |-> s, save |-> sv,
          no_interactive |-> ni, growth_days |-> g, bean_age |-> NoValue,
          wheat_age |-> NoValue, use_sky_dome |-> FALSE, show_grid |-> FALSE,
          soil_subdivisions |-> MaxSubdiv] :
            c \in BOOLEAN, t \in {"rgb", "multispectral"}, s \in BOOLEAN,
            sv \in BOOLEAN, ni \in BOOLEAN,
            g \in {DEFAULT_INITIAL_AGE, DEFAULT_GROWTH_DAYS}} :
        a.growth_days = DEFAULT_GROWTH_DAYS \/ ~a.camera}

\* Scenario A of the position generator (lengths in millimetres, densities
\* in seeds per square metre, emergence rates in thousandths)
ScenarioA ==
    [plot_width |-> 1000, plot_length |-> 1000, n_rows |-> 4,
     row_spacing |-> 210, bean_density |-> 36, wheat_density |-> 0,
     bean_emergence |-> BEAN_EMERGENCE_RATE,
     wheat_emergence |-> WHEAT_EMERGENCE_RATE, seed |-> 42]

\* the plot of the default command line with the defaults of the camera
\* functions (lengths in millimetres, field of view in degrees)
CamDefault ==
    [plot_width |-> 1000, plot_length |-> 1000,
     margin |-> create_soil_plane_margin, fov |-> DEFAULT_FOV]

\* nothing computed yet for cin
CamNone ==
    [soil |-> NoValue, margin |-> NoValue, pose |-> NoValue,
     position |-> NoValue, height |-> NoValue]

\* the camera functions and the folder numbering have not been called
PureIdle ==
    /\ cin = CamDefault
    /\ cam = CamNone
    /\ ignored = {}
    /\ folder_log = <<>>

InitWith(A) ==
    /\ PureIdle
    /\ args \in A
    /\ available \in SUBSET Range(RequiredPlugins)
    /\ layout \in Layouts
    /\ pc = "check_plugins"
    /\ outcome = "running"
    /\ context = FALSE
    /\ uuids = {}
    /\ primStr = {}
    /\ primFloat = {}
    /\ ground_uuid = 0
    /\ margin = 0
    /\ positions = <<>>
    /\ plant_species_map = <<>>
    /\ sessions = {}
    /\ opened = {}
    /\ calls = <<>>
    /\ bands = <<>>
    /\ solar_info = FALSE
    /\ output_folder = NoValue
    /\ primary_image = None
    /\ numbered = {}
    /\ files = {}
    /\ printed = {}
    /\ stageLog = <<>>
    /\ finished = {}
    /\ gin = ScenarioA
    /\ rng = 0
    /\ results = <<>>
    /\ placed = <<>>

Init == InitWith(ArgsDefault)


(***************************************************************************)
(* Control flow shared by the actions.                                     *)
(***************************************************************************)
\* an exception leaves main: the interpreter prints the traceback and exits
Uncaught(stage) ==
    /\ pc' = "exit"
    /\ outcome' = "raised"
    /\ finished' = finished \cup {stage}

\* a `with` block is left, normally or by an exception: the session's
\* __exit__ runs either way
WithExitMutant(open, s, raised) == IF raised THEN open ELSE open \ {s}
WithExit(open, s, raised) == open \ {s}

\* the scene store numbers its primitives consecutively
NewUUIDs(S, n) == (Cardinality(S) + 1)..(Cardinality(S) + n)

(***************************************************************************)
(* INIT: the capability probe (core/scene.py).                             *)
(***************************************************************************)
check_required_pluginsMutant(avail) ==
    RequiredPlugins[Len(RequiredPlugins)] \in avail
check_required_plugins(avail) ==
    \A j \in 1..Len(RequiredPlugins) : RequiredPlugins[j] \in avail

CheckPlugins ==
    /\ pc = "check_plugins"
    /\ stageLog' = Append(stageLog, "INIT")
    /\ finished' = finished \cup {"INIT"}
    /\ printed' = printed
            \cup {"ERROR: " \o p \o " plugin not available" :
                    p \in Range(RequiredPlugins) \ available}
            \cup (IF Range(RequiredPlugins) \subseteq available
                  THEN {"All plugins available"} ELSE {})
    /\ IF check_required_plugins(available)
       THEN pc' = "setup_context" /\ outcome' = outcome
       ELSE pc' = "exit" /\ outcome' = "returned1"
    /\ UNCHANGED <<inputVars, pureVars, genVars, sceneVars, mainVars, sessions, opened,
                   calls, diskVars>>

(***************************************************************************)
(* SCENE_BUILT: context, ground, layout, growth session (main 218-267).    *)
(***************************************************************************)
setup_helios_context_calls ==
    <<Call("Context", <<>>, 0), Call("setDate", <<>>, 0),
      Call("setTime", <<>>, 0)>>

SetupContext ==
    /\ pc = "setup_context"
    /\ stageLog' = Append(stageLog, "SCENE_BUILT")
    /\ \E k \in FailurePoints(Len(setup_helios_context_calls)) :
        /\ calls' = calls \o Logged(setup_helios_context_calls, k)
        /\ context' = (k # 1)
        /\ IF k = 0
           THEN /\ pc' = "create_soil"
                /\ UNCHANGED <<outcome, finished>>
           ELSE Uncaught("SCENE_BUILT")
    /\ UNCHANGED <<inputVars, pureVars, genVars, uuids, primStr, primFloat, ground_uuid, margin, mainVars,
                   sessions, opened, diskVars, printed>>

\* soil.py 63-110: the flat tile is added when get_builtin_texture_path
\* found no texture (else branch) or the textured surface raised (except
\* branch)
falls_back_to_tileMutant(texture_path, texOk) == texture_path = None
falls_back_to_tile(texture_path, texOk) == texture_path = None \/ ~texOk

\* geometry/soil.py create_soil_plane: the obstacle patch, then the textured
\* surface (two triangles) or the flat tile (subdivisions x subdivisions)
CreateSoilPlane ==
    /\ pc = "create_soil"
    /\ \E texture_path \in {None, "dirt.jpg"},
          patchOk \in BOOLEAN, texOk \in BOOLEAN, tileOk \in BOOLEAN :
        LET textured == patchOk /\ texture_path # None /\ texOk
            fallback == patchOk /\ falls_back_to_tile(texture_path, texOk)
            tiled    == fallback /\ tileOk
            nTile    == args.soil_subdivisions * args.soil_subdivisions
            withPatch == IF patchOk THEN uuids \cup NewUUIDs(uuids, 1)
                         ELSE uuids
            soilCalls ==
                <<[m |-> "addPatch", a |-> <<>>, i |-> 0, ok |-> patchOk]>>
                \o (IF patchOk /\ texture_path # None
                    THEN <<[m |-> "addTrianglesFromArraysTextured",
                            a |-> <<texture_path>>, i |-> 0, ok |-> texOk]>>
                    ELSE <<>>)
                \o (IF fallback
                    THEN <<[m |-> "addTile", a |-> <<>>,
                            i |-> args.soil_subdivisions, ok |-> tileOk]>>
                    ELSE <<>>)
        IN  /\ calls' = calls \o soilCalls
            /\ uuids' = withPatch \cup
                  (IF textured THEN NewUUIDs(withPatch, 2)
                   ELSE IF tiled THEN NewUUIDs(withPatch, nTile) ELSE {})
            /\ printed' = printed
                  \cup (IF textured THEN {"Textured soil created"} ELSE {})
                  \cup (IF patchOk /\ texture_path = None
                        THEN {"Built-in texture not found"} ELSE {})
                  \cup (IF patchOk /\ texture_path # None /\ ~texOk
                        THEN {"Could not create textured soil"} ELSE {})
                  \cup (IF tiled /\ texture_path = None
                        THEN {"Plain soil created"} ELSE {})
            /\ IF textured \/ tiled
               THEN /\ ground_uuid' = Cardinality(uuids) + 1
                    /\ margin' = create_soil_plane_margin
                    /\ pc' = "generate_positions"
                    /\ UNCHANGED <<outcome, finished>>
               ELSE /\ UNCHANGED <<ground_uuid, margin>>
                    /\ Uncaught("SCENE_BUILT")
    /\ UNCHANGED <<inputVars, pureVars, genVars, context, primStr, primFloat, mainVars, sessions, opened,
                   diskVars, stageLog>>

\* main 235: the layout of the position generator
GeneratePositions ==
    /\ pc = "generate_positions"
    /\ positions' = layout
    /\ pc' = "open_growth"
    /\ UNCHANGED <<inputVars, pureVars, genVars, sceneVars, plant_species_map, bands, solar_info,
                   output_folder, primary_image, outcome, sessions,
                   opened, calls, diskVars, printed, stageLog, finished>>

\* main 246: with PlantArchitecture(context) as pa
OpenGrowth ==
    /\ pc = "open_growth"
    /\ \E ok \in BOOLEAN :
        /\ calls' = Append(calls, [m |-> "PlantArchitecture", a |-> <<>>,
                                   i |-> 0, ok |-> ok])
        /\ IF ok
           THEN /\ sessions' = sessions \cup {"growth"}
                /\ opened' = opened \cup {"growth"}
                /\ pc' = "setup_collision"
                /\ UNCHANGED <<outcome, finished>>
           ELSE /\ UNCHANGED <<sessions, opened>>
                /\ Uncaught("SCENE_BUILT")
    /\ UNCHANGED <<inputVars, pureVars, genVars, sceneVars, mainVars, diskVars, printed, stageLog>>

\* core/collision.py setup_full_collision_system
setup_full_collision_system_calls ==
    <<Call("setSoftCollisionAvoidanceParameters", <<>>, 0),
      Call("setCollisionRelevantOrgans", <<>>, 0),
      Call("enableSoftCollisionAvoidance", <<>>, 0),
      Call("enableSolidObstacleAvoidance", <<>>, ground_uuid)>>

SetupCollision ==
    /\ pc = "setup_collision"
    /\ \E k \in FailurePoints(Len(setup_full_collision_system_calls)) :
        /\ calls' = calls \o Logged(setup_full_collision_system_calls, k)
        /\ IF k = 0
           THEN /\ pc' = "build_plants"
                /\ UNCHANGED <<sessions, outcome, finished>>
           ELSE /\ sessions' = WithExit(sessions, "growth", TRUE)
                /\ Uncaught("SCENE_BUILT")
    /\ UNCHANGED <<inputVars, pureVars, genVars, sceneVars, mainVars, opened, diskVars, printed,
                   stageLog>>

\* the indices of the layout entries of one species, in layout order
Idx(pos, sp) ==
    SelectSeq([j \in 1..Len(pos) |-> j], LAMBDA j : pos[j] = sp)

\* geometry/plants.py build_plants: per species present, one model load, then
\* one instance per position of that species
build_plants_callsMutant(pos) ==
    [j \in 1..Len(Idx(pos, "bean")) |->
        Call("buildPlantInstanceFromLibrary", <<>>, Idx(pos, "bean")[j])]
    \o <<Call("loadPlantModelFromLibrary", <<"bean">>, 0),
         Call("loadPlantModelFromLibrary", <<"wheat">>, 0)>>
    \o [j \in 1..Len(Idx(pos, "wheat")) |->
          Call("buildPlantInstanceFromLibrary", <<>>, Idx(pos, "wheat")[j])]
build_plants_calls(pos) ==
    LET load(sp) == <<Call("loadPlantModelFromLibrary", <<sp>>, 0)>>
        build(sp) ==
            [j \in 1..Len(Idx(pos, sp)) |->
                Call("buildPlantInstanceFromLibrary", <<>>, Idx(pos, sp)[j])]
        part(sp) ==
            IF Len(Idx(pos, sp)) > 0 THEN load(sp) \o build(sp) ELSE <<>>
    IN  part("bean") \o part("wheat")

\* the tag build_plants records for each instance, in build order
build_plants_tagsMutant(pos) == [j \in 1..Len(pos) |-> SPECIES_BEAN]
build_plants_tags(pos) ==
    [j \in 1..Len(Idx(pos, "bean")) |-> SPECIES_BEAN]
    \o [j \in 1..Len(Idx(pos, "wheat")) |-> SPECIES_WHEAT]

NBuilt(cs) ==
    Len(SelectSeq(cs, LAMBDA c : c.m = "buildPlantInstanceFromLibrary"))

BuildPlants ==
    /\ pc = "build_plants"
    /\ \E k \in FailurePoints(Len(build_plants_calls(positions))) :
        LET cs == build_plants_calls(positions)
            nb == NBuilt(Returned(cs, k))
        IN  /\ calls' = calls \o Logged(cs, k)
            /\ uuids' = uuids \cup NewUUIDs(uuids, nb * PrimsPerPlant)
            /\ IF k = 0
               THEN /\ plant_species_map' = build_plants_tags(positions)
                    /\ pc' = "grow_plants"
                    /\ UNCHANGED <<sessions, outcome, finished>>
               ELSE /\ UNCHANGED plant_species_map
                    /\ sessions' = WithExit(sessions, "growth", TRUE)
                    /\ Uncaught("SCENE_BUILT")
    /\ UNCHANGED <<inputVars, pureVars, genVars, context, primStr, primFloat, ground_uuid, margin,
                   positions, bands, solar_info, output_folder,
                   primary_image, opened, diskVars, printed, stageLog>>

Max(a, b) == IF a >= b THEN a ELSE b

\* main 190-195
bean_age(a) == IF a.bean_age # NoValue THEN a.bean_age[1] ELSE a.growth_days
wheat_age(a) ==
    IF a.wheat_age # NoValue THEN a.wheat_age[1] ELSE a.growth_days
max_growth_timeMutant(a) == Max(0, bean_age(a) - DEFAULT_INITIAL_AGE)
max_growth_time(a) ==
    Max(Max(0, bean_age(a) - DEFAULT_INITIAL_AGE),
        Max(0, wheat_age(a) - DEFAULT_INITIAL_AGE))

\* main 260-262 and geometry/plants.py grow_plants; then the growth block ends
GrowPlants ==
    /\ pc = "grow_plants"
    /\ \E ok \in BOOLEAN :
        LET t == max_growth_time(args)
            grows == t > 0
            n == Len(plant_species_map)
        IN  /\ ok \/ grows
            /\ calls' = IF grows
                        THEN Append(calls, [m |-> "advanceTime", a |-> <<>>,
                                            i |-> t, ok |-> ok])
                        ELSE calls
            /\ uuids' = IF grows /\ ok
                        THEN uuids \cup NewUUIDs(uuids, n * PrimsPerPlant)
                        ELSE uuids
            /\ sessions' = WithExit(sessions, "growth", ~ok)
            /\ printed' = IF grows /\ ok
                          THEN printed \cup {"Growth complete"} ELSE printed
            /\ IF ok
               THEN pc' = "scene_stats" /\ UNCHANGED <<outcome, finished>>
               ELSE Uncaught("SCENE_BUILT")
    /\ UNCHANGED <<inputVars, pureVars, genVars, context, primStr, primFloat, ground_uuid, margin,
                   mainVars, opened, diskVars, stageLog>>

\* main 270: the LABELED stage runs only if segmentation was requested
AfterSceneMutant(a) == "label"
AfterScene(a) == IF a.segmentation THEN "label" ELSE "open_solar"

\* main 264-267
SceneStats ==
    /\ pc = "scene_stats"
    /\ \E ok \in BOOLEAN :
        /\ calls' = Append(calls, [m |-> "getPrimitiveCount", a |-> <<>>,
                                   i |-> 0, ok |-> ok])
        /\ IF ok
           THEN /\ pc' = AfterScene(args)
                /\ finished' = finished \cup {"SCENE_BUILT"}
                /\ UNCHANGED outcome
           ELSE Uncaught("SCENE_BUILT")
    /\ UNCHANGED <<inputVars, pureVars, genVars, sceneVars, mainVars, sessions, opened,
                   diskVars, printed, stageLog>>

(***************************************************************************)
(* LABELED (segmentation/labels.py).                                       *)
(***************************************************************************)
\* primitive data written by a list of set-operations <<uuid, key, value>>:
\* a later value for the same uuid and key replaces the earlier one
SetData(D, ops) ==
    {d \in D : \A j \in 1..Len(ops) : ~(ops[j][1] = d[1] /\ ops[j][2] = d[2])}
    \cup Range(ops)

\* apply_species_labels: ground first, then every other identity is "bean"
apply_species_labels_opsMutant(all_uuids, ground) ==
    [j \in 1..Len(SelectSeq(all_uuids, LAMBDA u : u # ground)) |->
        <<SelectSeq(all_uuids, LAMBDA u : u # ground)[j], "plant_part",
          PLANT_PART_BEAN>>]
apply_species_labels_ops(all_uuids, ground) ==
    <<<<ground, "plant_part", PLANT_PART_GROUND>>>>
    \o [j \in 1..Len(SelectSeq(all_uuids, LAMBDA u : u # ground)) |->
          <<SelectSeq(all_uuids, LAMBDA u : u # ground)[j], "plant_part",
            PLANT_PART_BEAN>>]

\* labels.py 43-66: (labeled_count, bean_primitives, wheat_primitives)
apply_species_labels_return(all_uuids, ground) ==
    [labeled_count |-> 1 + Len(SelectSeq(all_uuids, LAMBDA u : u # ground)),
     bean_primitives |-> Len(SelectSeq(all_uuids, LAMBDA u : u # ground)),
     wheat_primitives |-> 0]

Label ==
    /\ pc = "label"
    /\ stageLog' = Append(stageLog, "LABELED")
    /\ LET ops == apply_species_labels_ops(SortedSeq(uuids), ground_uuid)
       IN  \E f \in FailurePoints(Len(ops) + 1) :
            \* f = 1: getAllUUIDs raised; f = j + 1: the j-th write raised
            \* (the writes before it are in the store)
            /\ calls' = calls
                  \o <<[m |-> "getAllUUIDs", a |-> <<>>, i |-> 0,
                        ok |-> (f # 1)]>>
                  \o (IF f >= 2
                      THEN <<[m |-> "setPrimitiveDataString",
                              a |-> <<ops[f - 1][2]>>, i |-> ops[f - 1][1],
                              ok |-> FALSE]>>
                      ELSE <<>>)
            /\ primStr' = IF f = 0 THEN SetData(primStr, ops)
                          ELSE SetData(primStr, SubSeq(ops, 1, f - 2))
            /\ IF f = 0
               THEN /\ pc' = "open_solar"
                    /\ finished' = finished \cup {"LABELED"}
                    /\ printed' = printed \cup {"Labeled primitives"}
                    /\ UNCHANGED outcome
               ELSE /\ Uncaught("LABELED")
                    /\ UNCHANGED printed
    /\ UNCHANGED <<inputVars, pureVars, genVars, context, uuids, primFloat, ground_uuid, margin,
                   mainVars, sessions, opened, diskVars>>

(***************************************************************************)
(* SOLAR_COMPUTED (radiation/solar.py calculate_solar_position).           *)
(***************************************************************************)
\* main 280: with SolarPosition(context, ...) as sun
OpenSolar ==
    /\ pc = "open_solar"
    /\ stageLog' = Append(stageLog, "SOLAR_COMPUTED")
    /\ \E ok \in BOOLEAN :
        /\ calls' = Append(calls, [m |-> "SolarPosition", a |-> <<>>,
                                   i |-> 0, ok |-> ok])
        /\ IF ok
           THEN /\ sessions' = sessions \cup {"ephemeris"}
                /\ opened' = opened \cup {"ephemeris"}
                /\ pc' = "query_solar"
                /\ UNCHANGED <<outcome, finished>>
           ELSE /\ UNCHANGED <<sessions, opened>>
                /\ Uncaught("SOLAR_COMPUTED")
    /\ UNCHANGED <<inputVars, pureVars, genVars, sceneVars, mainVars, diskVars, printed>>

calculate_solar_position_calls ==
    <<Call("getSunDirectionVector", <<>>, 0), Call("getSunElevation", <<>>, 0),
      Call("getSunAzimuth", <<>>, 0), Call("getSolarFlux", <<>>, 0)>>

\* the body of the ephemeris block; main 281-283 prints the record
QuerySolar ==
    /\ pc = "query_solar"
    /\ \E k \in FailurePoints(Len(calculate_solar_position_calls)) :
        /\ calls' = calls \o Logged(calculate_solar_position_calls, k)
        /\ sessions' = WithExit(sessions, "ephemeris", k # 0)
        /\ IF k = 0
           THEN /\ solar_info' = TRUE
                /\ printed' = printed \cup {"Sun", "Solar flux"}
                /\ pc' = "prepare_folder"
                /\ finished' = finished \cup {"SOLAR_COMPUTED"}
                /\ UNCHANGED outcome
           ELSE /\ UNCHANGED <<solar_info, printed>>
                /\ Uncaught("SOLAR_COMPUTED")
    /\ UNCHANGED <<inputVars, pureVars, genVars, sceneVars, positions, plant_species_map, bands,
                   output_folder, primary_image, opened, diskVars, stageLog>>

(***************************************************************************)
(* The output folder (main 285-288, utils/file_utils.py).                  *)
(***************************************************************************)
SetMax(S) == CHOOSE x \in S : \A y \in S : y <= x

\* get_next_output_folder: one more than the largest numbered folder
next_numMutant(existing) == Cardinality(existing) + 1
next_num(existing) == SetMax(existing \cup {0}) + 1

get_next_output_folder_calls ==
    <<Call("mkdir", <<"base">>, 0), Call("iterdir", <<"base">>, 0),
      Call("mkdir", <<"numbered">>, next_num(numbered))>>

\* main 291: the IMAGED stage runs only if the camera was requested;
\* main 340: the EXPORTED stage only if save was requested and a folder
\* exists; main 363: the VISUALIZED stage unless no-interactive was given
AfterExport(a) == IF ~a.no_interactive THEN "open_view" ELSE "complete"
AfterImaging(a, folder) ==
    IF a.save /\ folder # NoValue THEN "export" ELSE AfterExport(a)
AfterFolder(a, folder) ==
    IF a.camera THEN "radprops" ELSE AfterImaging(a, folder)

PrepareFolder ==
    /\ pc = "prepare_folder"
    /\ IF args.save
       THEN \E k \in FailurePoints(Len(get_next_output_folder_calls)) :
            /\ calls' = calls \o Logged(get_next_output_folder_calls, k)
            /\ files' = IF k # 1 THEN files \cup {"base"} ELSE files
            /\ IF k = 0
               THEN /\ output_folder' = <<next_num(numbered)>>
                    /\ numbered' = numbered \cup {next_num(numbered)}
                    /\ pc' = AfterFolder(args, <<next_num(numbered)>>)
                    /\ UNCHANGED <<outcome, finished>>
               ELSE /\ UNCHANGED <<output_folder, numbered>>
                    /\ Uncaught("SOLAR_COMPUTED")
       ELSE /\ pc' = AfterFolder(args, output_folder)
            /\ UNCHANGED <<calls, files, output_folder, numbered, outcome,
                           finished>>
    /\ UNCHANGED <<inputVars, pureVars, genVars, sceneVars, positions, plant_species_map, bands,
                   solar_info, primary_image, sessions, opened, printed,
                   stageLog>>

(***************************************************************************)
(* IMAGED (main 290-337, radiation/properties.py, radiation/imaging.py).   *)
(***************************************************************************)
\* main 296: the bands radiative properties are assigned for
bands_for_propsMutant(camera_type) == <<"Red", "Green", "Blue">>
bands_for_props(camera_type) ==
    IF camera_type = "multispectral" THEN <<"Red", "Green", "Blue", "NIR">>
    ELSE <<"Red", "Green", "Blue">>

\* radiation/properties.py set_soil_properties
set_soil_properties_opsMutant(uuid, bs) ==
    Flatten([j \in 1..Len(bs) |->
        IF bs[j] \in DOMAIN SOIL_REFLECTANCE
        THEN << <<uuid, "reflectivity_" \o bs[j], SOIL_REFLECTANCE[bs[j]]>> >>
        ELSE <<>>])
set_soil_properties_ops(uuid, bs) ==
    Flatten([j \in 1..Len(bs) |->
        IF bs[j] \in DOMAIN SOIL_REFLECTANCE
        THEN << <<uuid, "reflectivity_" \o bs[j], SOIL_REFLECTANCE[bs[j]]>>,
                <<uuid, "transmissivity_" \o bs[j], 0>> >>
        ELSE <<>>])

\* radiation/properties.py set_leaf_properties
set_leaf_properties_ops(uuid, bs) ==
    Flatten([j \in 1..Len(bs) |->
        (IF bs[j] \in DOMAIN LEAF_REFLECTANCE
         THEN << <<uuid, "reflectivity_" \o bs[j], LEAF_REFLECTANCE[bs[j]]>> >>
         ELSE <<>>)
        \o (IF bs[j] \in DOMAIN LEAF_TRANSMISSIVITY
            THEN << <<uuid, "transmissivity_" \o bs[j],
                      LEAF_TRANSMISSIVITY[bs[j]]>> >>
            ELSE <<>>)])

\* radiation/properties.py apply_radiative_properties
apply_radiative_properties_opsMutant(all_uuids, ground, bs) ==
    Flatten([j \in 1..Len(all_uuids) |->
        IF all_uuids[j] <= ground + 1
        THEN set_soil_properties_ops(all_uuids[j], bs)
        ELSE set_leaf_properties_ops(all_uuids[j], bs)])
apply_radiative_properties_ops(all_uuids, ground, bs) ==
    Flatten([j \in 1..Len(all_uuids) |->
        IF all_uuids[j] = ground
        THEN set_soil_properties_ops(all_uuids[j], bs)
        ELSE set_leaf_properties_ops(all_uuids[j], bs)])

\* properties.py 111: return len(all_uuids)
apply_radiative_properties_return(all_uuids) == Len(all_uuids)

\* main 295-298: outside the try block of the imaging stage
ApplyRadProps ==
    /\ pc = "radprops"
    /\ stageLog' = Append(stageLog, "IMAGED")
    /\ LET ops == apply_radiative_properties_ops(
                      SortedSeq(uuids), ground_uuid,
                      bands_for_props(args.camera_type))
       IN  \E f \in FailurePoints(Len(ops) + 1) :
            /\ calls' = calls
                  \o <<[m |-> "getAllUUIDs", a |-> <<>>, i |-> 0,
                        ok |-> (f # 1)]>>
                  \o (IF f >= 2
                      THEN <<[m |-> "setPrimitiveDataFloat",
                              a |-> <<ops[f - 1][2]>>, i |-> ops[f - 1][1],
                              ok |-> FALSE]>>
                      ELSE <<>>)
            /\ primFloat' = IF f = 0 THEN SetData(primFloat, ops)
                            ELSE SetData(primFloat, SubSeq(ops, 1, f - 2))
            /\ IF f = 0
               THEN /\ pc' = "open_radiation"
                    /\ printed' = printed \cup {"Set reflectance properties"}
                    /\ UNCHANGED <<outcome, finished>>
               ELSE /\ Uncaught("IMAGED")
                    /\ UNCHANGED printed
    /\ UNCHANGED <<inputVars, pureVars, genVars, context, uuids, primStr, ground_uuid, margin,
                   mainVars, sessions, opened, diskVars>>

\* main 332-337: an exception raised inside the try block leaves the
\* radiation block and is handled; the run goes on after the imaging stage
Caught(e) ==
    /\ sessions' = WithExit(sessions, "radiation", TRUE)
    /\ printed' = printed
          \cup {IF e = "HeliosError" THEN "Camera imaging failed"
                ELSE "Unexpected error", "Continuing with visualization"}
    /\ finished' = finished \cup {"IMAGED"}
    /\ pc' = AfterImaging(args, output_folder)
    /\ UNCHANGED outcome

\* main 301: with RadiationModel(context) as radiation
OpenRadiation ==
    /\ pc = "open_radiation"
    /\ \E ok \in BOOLEAN :
        /\ calls' = Append(calls, [m |-> "RadiationModel", a |-> <<>>,
                                   i |-> 0, ok |-> ok])
        /\ IF ok
           THEN /\ sessions' = sessions \cup {"radiation"}
                /\ opened' = opened \cup {"radiation"}
                /\ pc' = "setup_bands"
                /\ UNCHANGED <<outcome, finished, printed>>
           ELSE /\ UNCHANGED opened
                /\ \E e \in ExcKinds : Caught(e)
    /\ UNCHANGED <<inputVars, pureVars, genVars, sceneVars, mainVars, diskVars, stageLog>>

\* one step of the radiation block that makes the calls cs and then goes to
\* `next`; an exception goes to the handler
RadiationStep(cs, next) ==
    \E k \in FailurePoints(Len(cs)) :
        /\ calls' = calls \o Logged(cs, k)
        /\ IF k = 0
           THEN /\ pc' = next
                /\ UNCHANGED <<sessions, outcome, finished, printed>>
           ELSE \E e \in ExcKinds : Caught(e)

\* radiation/imaging.py setup_radiation_bands
camera_bands(camera_type) ==
    IF camera_type = "multispectral" THEN <<"Red", "Green", "Blue", "NIR">>
    ELSE <<"Red", "Green", "Blue">>

setup_radiation_bands_callsMutant(bs) ==
    <<Call("addRadiationBand", <<bs[1]>>, 0)>>
setup_radiation_bands_calls(bs) ==
    Flatten([j \in 1..Len(bs) |->
        IF bs[j] \in DOMAIN BAND_WAVELENGTHS
        THEN <<Call("addRadiationBand", <<bs[j]>>, 0)>> ELSE <<>>])

SetupBands ==
    /\ pc = "setup_bands"
    /\ RadiationStep(setup_radiation_bands_calls(camera_bands(args.camera_type)),
                     "sun_source")
    /\ bands' = IF pc' = "sun_source" THEN camera_bands(args.camera_type)
                ELSE bands
    /\ UNCHANGED <<inputVars, pureVars, genVars, sceneVars, positions, plant_species_map,
                   solar_info, output_folder, primary_image, opened,
                   diskVars, stageLog>>

\* radiation/imaging.py setup_sun_source
setup_sun_source_calls(bs) ==
    <<Call("addSunSphereRadiationSource", <<>>, 0)>>
    \o Flatten([j \in 1..Len(bs) |->
        IF bs[j] \in DOMAIN SOLAR_IRRADIANCE
        THEN <<Call("setSourceFlux", <<bs[j]>>, SOLAR_IRRADIANCE[bs[j]])>>
        ELSE <<>>])

SunSource ==
    /\ pc = "sun_source"
    /\ RadiationStep(setup_sun_source_calls(bands), "configure_bands")
    /\ UNCHANGED <<inputVars, pureVars, genVars, sceneVars, mainVars, opened, diskVars, stageLog>>

\* radiation/imaging.py configure_band_rendering
configure_band_rendering_calls(bs) ==
    Flatten([j \in 1..Len(bs) |->
        <<Call("setDirectRayCount", <<bs[j]>>, 2000),
          Call("setDiffuseRayCount", <<bs[j]>>, 5000)>>
        \o (IF bs[j] \in DOMAIN DIFFUSE_IRRADIANCE
            THEN <<Call("setDiffuseRadiationFlux", <<bs[j]>>,
                        DIFFUSE_IRRADIANCE[bs[j]])>>
            ELSE <<>>)
        \o <<Call("setScatteringDepth", <<bs[j]>>, 4),
             Call("disableEmission", <<bs[j]>>, 0)>>])

ConfigureRendering ==
    /\ pc = "configure_bands"
    /\ RadiationStep(configure_band_rendering_calls(bands), "setup_camera")
    /\ UNCHANGED <<inputVars, pureVars, genVars, sceneVars, mainVars, opened, diskVars, stageLog>>

\* radiation/imaging.py setup_radiation_camera
setup_radiation_camera_calls(bs) ==
    <<Call("addRadiationCamera", bs, 0)>>

SetupCamera ==
    /\ pc = "setup_camera"
    /\ RadiationStep(setup_radiation_camera_calls(bands), "run_simulation")
    /\ UNCHANGED <<inputVars, pureVars, genVars, sceneVars, mainVars, opened, diskVars, stageLog>>

\* radiation/imaging.py run_camera_simulation: one call for all bands
run_camera_simulation_callsMutant(bs) ==
    <<Call("updateGeometry", <<>>, 0)>>
    \o [j \in 1..Len(bs) |-> Call("runBand", <<bs[j]>>, 0)]
run_camera_simulation_calls(bs) ==
    <<Call("updateGeometry", <<>>, 0), Call("runBand", bs, 0)>>

RunSimulation ==
    /\ pc = "run_simulation"
    /\ RadiationStep(run_camera_simulation_calls(bands), "save_images")
    /\ UNCHANGED <<inputVars, pureVars, genVars, sceneVars, mainVars, opened, diskVars, stageLog>>

\* main 321: images are written only with --save and an output folder
SaveGate(a, folder) == a.save /\ folder # NoValue

\* main 327: masks need --segmentation and a primary image
MaskGateMutant(a, image) == a.segmentation
MaskGate(a, image) == a.segmentation /\ image # None

\* main 320-330 and radiation/imaging.py save_camera_images
SaveImages ==
    /\ pc = "save_images"
    /\ IF SaveGate(args, output_folder)
       THEN \E mkdirOk \in BOOLEAN, imageOk \in BOOLEAN, normOk \in BOOLEAN,
               e \in ExcKinds :
            LET base == IF args.camera_type = "multispectral"
                        THEN "multispectral" ELSE "rgb"
                image == IF mkdirOk /\ imageOk THEN base \o ".jpeg" ELSE None
            IN  /\ calls' = calls
                      \o <<[m |-> "mkdir", a |-> <<"images">>, i |-> 0,
                            ok |-> mkdirOk]>>
                      \o (IF mkdirOk
                          THEN <<[m |-> "writeCameraImage", a |-> bands,
                                  i |-> 0, ok |-> imageOk]>>
                          ELSE <<>>)
                      \o (IF mkdirOk /\ imageOk
                          THEN <<[m |-> "writeNormCameraImage", a |-> bands,
                                  i |-> 0, ok |-> normOk]>>
                          ELSE <<>>)
                /\ files' = files
                      \cup (IF mkdirOk THEN {"images"} ELSE {})
                      \cup (IF mkdirOk /\ imageOk THEN {"image"} ELSE {})
                      \cup (IF mkdirOk /\ imageOk /\ normOk
                            THEN {"norm_image"} ELSE {})
                /\ IF mkdirOk
                   THEN /\ primary_image' = image
                        /\ printed' = printed
                              \cup (IF imageOk THEN {"Image saved"}
                                    ELSE {"Camera image export failed"})
                              \cup (IF imageOk /\ ~normOk
                                    THEN {"Normalized image failed"} ELSE {})
                        /\ pc' = IF MaskGate(args, image) THEN "save_masks"
                                 ELSE "close_radiation"
                        /\ UNCHANGED <<sessions, outcome, finished>>
                   ELSE /\ UNCHANGED primary_image
                        /\ Caught(e)
       ELSE /\ printed' = printed \cup {"Use --save to export camera images"}
            /\ pc' = "close_radiation"
            /\ UNCHANGED <<calls, files, primary_image, sessions, outcome,
                           finished>>
    /\ UNCHANGED <<inputVars, pureVars, genVars, sceneVars, positions, plant_species_map, bands,
                   solar_info, output_folder, numbered, opened, stageLog>>

\* radiation/imaging.py save_segmentation_masks: a failure is caught inside
SaveMasks ==
    /\ pc = "save_masks"
    /\ \E ok \in BOOLEAN :
        /\ calls' = Append(calls, [m |-> "writeImageSegmentationMasks",
                                   a |-> <<"plant_part">>, i |-> 0, ok |-> ok])
        /\ files' = IF ok THEN files \cup {"masks"} ELSE files
        /\ printed' = printed \cup {IF ok THEN "Segmentation masks saved"
                                    ELSE "Segmentation failed"}
    /\ pc' = "close_radiation"
    /\ UNCHANGED <<inputVars, pureVars, genVars, sceneVars, mainVars, outcome, sessions,
                   opened, numbered, stageLog, finished>>

\* the radiation block ends normally
CloseRadiation ==
    /\ pc = "close_radiation"
    /\ sessions' = WithExit(sessions, "radiation", FALSE)
    /\ finished' = finished \cup {"IMAGED"}
    /\ pc' = AfterImaging(args, output_folder)
    /\ UNCHANGED <<inputVars, pureVars, genVars, sceneVars, mainVars, outcome, opened,
                   calls, diskVars, printed, stageLog>>

(***************************************************************************)
(* EXPORTED (main 339-360, io/export.py, io/metadata.py).                  *)
(***************************************************************************)
\* io/export.py export_scene: PLY, then OBJ, no handler
export_scene_calls ==
    <<Call("writePLY", <<"scene.ply">>, 0), Call("writeOBJ", <<"scene.obj">>, 0)>>

ExportScene ==
    /\ pc = "export"
    /\ stageLog' = Append(stageLog, "EXPORTED")
    /\ \E k \in FailurePoints(Len(export_scene_calls)) :
        /\ calls' = calls \o Logged(export_scene_calls, k)
        /\ files' = files \cup {c.a[1] : c \in Range(Returned(export_scene_calls, k))}
        /\ printed' = printed
              \cup {"Saved " \o c.a[1] : c \in Range(Returned(export_scene_calls, k))}
        /\ IF k = 0
           THEN pc' = "save_metadata" /\ UNCHANGED <<outcome, finished>>
           ELSE Uncaught("EXPORTED")
    /\ UNCHANGED <<inputVars, pureVars, genVars, sceneVars, mainVars, sessions, opened, numbered>>

\* main 346-360 and io/metadata.py save_scene_metadata
SaveMetadata ==
    /\ pc = "save_metadata"
    /\ \E ok \in BOOLEAN :
        /\ calls' = Append(calls, [m |-> "open", a |-> <<"scene_info.md">>,
                                   i |-> 0, ok |-> ok])
        /\ IF ok
           THEN /\ files' = files \cup {"scene_info.md"}
                /\ printed' = printed \cup {"Saved metadata"}
                /\ finished' = finished \cup {"EXPORTED"}
                /\ pc' = AfterExport(args)
                /\ UNCHANGED outcome
           ELSE /\ UNCHANGED <<files, printed>>
                /\ Uncaught("EXPORTED")
    /\ UNCHANGED <<inputVars, pureVars, genVars, sceneVars, mainVars, sessions, opened, numbered,
                   stageLog>>

(***************************************************************************)
(* VISUALIZED (main 362-371, visualization/renderer.py).                   *)
(***************************************************************************)
\* render_interactive 75-82: the primitive count, then with Visualizer(...)
OpenView ==
    /\ pc = "open_view"
    /\ stageLog' = Append(stageLog, "VISUALIZED")
    /\ \E countOk \in BOOLEAN, ok \in BOOLEAN :
        /\ calls' = calls
              \o <<[m |-> "getPrimitiveCount", a |-> <<>>, i |-> 0,
                    ok |-> countOk]>>
              \o (IF countOk
                  THEN <<[m |-> "Visualizer", a |-> <<>>, i |-> 0, ok |-> ok]>>
                  ELSE <<>>)
        /\ IF countOk /\ ok
           THEN /\ sessions' = sessions \cup {"render"}
                /\ opened' = opened \cup {"render"}
                /\ pc' = "render"
                /\ UNCHANGED <<outcome, finished>>
           ELSE /\ UNCHANGED <<sessions, opened>>
                /\ Uncaught("VISUALIZED")
    /\ UNCHANGED <<inputVars, pureVars, genVars, sceneVars, mainVars, diskVars, printed>>

\* the calls of the render block, for a sky texture that was found or not
render_interactive_calls(a, sky_path) ==
    <<Call("buildContextGeometry", <<>>, 0)>>
    \o (IF a.use_sky_dome /\ sky_path # None
        THEN <<Call("setBackgroundSkyTexture", <<sky_path>>, 0)>>
        ELSE <<Call("setBackgroundColor", <<>>, 0)>>)
    \o <<Call("setLightDirection", <<>>, 0),
         Call("setLightIntensityFactor", <<>>, 0),
         Call("setLightingModel", <<"phong_shadowed">>, 0)>>
    \o (IF a.show_grid THEN <<Call("addGridWireFrame", <<>>, 0)>> ELSE <<>>)
    \o <<Call("setCameraPosition", <<>>, 0), Call("hideWatermark", <<>>, 0),
         Call("plotInteractive", <<>>, 0)>>

Render ==
    /\ pc = "render"
    /\ \E sky_path \in (IF args.use_sky_dome
                         THEN {None, "SkyDome_clouds.jpg"} ELSE {None}) :
        LET cs == render_interactive_calls(args, sky_path)
        IN  \E k \in FailurePoints(Len(cs)) :
            /\ calls' = calls \o Logged(cs, k)
            /\ sessions' = WithExit(sessions, "render", k # 0)
            /\ IF k = 0
               THEN /\ pc' = "complete"
                    /\ finished' = finished \cup {"VISUALIZED"}
                    /\ UNCHANGED outcome
               ELSE Uncaught("VISUALIZED")
    /\ UNCHANGED <<inputVars, pureVars, genVars, sceneVars, mainVars, opened, diskVars, printed,
                   stageLog>>

(***************************************************************************)
(* DONE (main 373-377).                                                    *)
(***************************************************************************)
Complete ==
    /\ pc = "complete"
    /\ stageLog' = Append(stageLog, "DONE")
    /\ finished' = finished \cup {"DONE"}
    /\ printed' = printed \cup {"COMPLETE"}
    /\ outcome' = "returned0"
    /\ pc' = "exit"
    /\ UNCHANGED <<inputVars, pureVars, genVars, sceneVars, mainVars, sessions, opened,
                   calls, diskVars>>

Next ==
    \/ CheckPlugins
    \/ SetupContext
    \/ CreateSoilPlane
    \/ GeneratePositions
    \/ OpenGrowth
    \/ SetupCollision
    \/ BuildPlants
    \/ GrowPlants
    \/ SceneStats
    \/ Label
    \/ OpenSolar
    \/ QuerySolar
    \/ PrepareFolder
    \/ ApplyRadProps
    \/ OpenRadiation
    \/ SetupBands
    \/ SunSource
    \/ ConfigureRendering
    \/ SetupCamera
    \/ RunSimulation
    \/ SaveImages
    \/ SaveMasks
    \/ CloseRadiation
    \/ ExportScene
    \/ SaveMetadata
    \/ OpenView
    \/ Render
    \/ Complete

Spec == Init /\ [][Next]_vars

(***************************************************************************)
(* The position generator (geometry/plants.py generate_intercrop_positions)*)
(* and the placement of the instances (build_plants).  Lengths are in      *)
(* millimetres, densities in seeds per square metre, emergence rates in    *)
(* thousandths; a quotient is rounded down to the unit.                    *)
(***************************************************************************)
\* plants.py 101-102: the jitter half-widths 0.02 m and 0.015 m
JITTER_X == 20
JITTER_Y == 15
\* plants.py 105-106: the inset 0.05 m of the clip
CLIP_INSET == 50

Min(a, b) == IF a <= b THEN a ELSE b

\* Python's int() of the non-negative quotient num / den
int_truncMutant(num, den) == (2 * num + den) \div (2 * den)
int_trunc(num, den) == num \div den

\* floor(density * plot_area * emergence) for an area in mm^2 and a rate in
\* thousandths, the product taken in two parts to stay within 32 bits
TripleProductFloor(density, plot_area, emergence) ==
    LET seeds == density * plot_area
    IN  ((seeds \div 1000000) * emergence
            + ((seeds % 1000000) * emergence) \div 1000000) \div 1000

\* np.random.seed(seed): the global generator restarts from the seed
np_random_seedMutant(seed, state) == state
np_random_seed(seed, state) == seed % 16

\* one step of the global generator
RngNext(s) == (5 * s + 3) % 16

\* np.random.uniform(-h, h), read off the generator state after one step
uniform(h, s) == ((s % 3) - 1) * h

\* np.clip(v, lo, hi) = minimum(maximum(v, lo), hi); lo <= hi is not checked
np_clip(v, lo, hi) == Min(Max(v, lo), hi)

RECURSIVE np_random_shuffle(_, _, _)
\* np.random.shuffle: Fisher-Yates from the last element down, one draw per
\* element; returns the list and the generator state
np_random_shuffle(xs, i, s) ==
    IF i < 2 THEN [list |-> xs, rng |-> s]
    ELSE LET s2 == RngNext(s)
             j  == (s2 % i) + 1
             ys == [xs EXCEPT ![i] = xs[j], ![j] = xs[i]]
         IN  np_random_shuffle(ys, i - 1, s2)

\* plants.py 59-65: seeds sown, then emerged plants, truncated at each step
emerged_countMutant(density, plot_area, emergence) ==
    TripleProductFloor(density, plot_area, emergence)
emerged_count(density, plot_area, emergence) ==
    int_trunc(int_trunc(density * plot_area, 1000000) * emergence, 1000)

\* plants.py 79: np.linspace(row_spacing, plot_length - row_spacing, n_rows)
row_y_positions(g) ==
    [k \in 1..g.n_rows |->
        IF g.n_rows = 1 THEN g.row_spacing
        ELSE g.row_spacing
             + ((k - 1) * (g.plot_length - 2 * g.row_spacing))
                   \div (g.n_rows - 1)]

\* plants.py 82-89: plants of the row with index row_idx (from 0)
n_plants_this_rowMutant(total_plants, n_rows, row_idx) ==
    (total_plants \div n_rows)
        + (IF row_idx = 0 THEN total_plants % n_rows ELSE 0)
n_plants_this_row(total_plants, n_rows, row_idx) ==
    (total_plants \div n_rows)
        + (IF row_idx < total_plants % n_rows THEN 1 ELSE 0)

RECURSIVE place_rows(_, _, _, _)
\* plants.py 88-109: the loop over the rows and the plants of a row;
\* st = [row_idx, i, positions, rows, rng], rows the plants emitted per row
place_rows(g, plant_types, total_plants, st) ==
    IF st.row_idx >= g.n_rows THEN st
    ELSE LET n == n_plants_this_row(total_plants, g.n_rows, st.row_idx)
         IN  IF st.i >= n \/ Len(st.positions) >= total_plants
             THEN place_rows(g, plant_types, total_plants,
                     [st EXCEPT !.row_idx = @ + 1, !.i = 0,
                                !.rows = Append(@, st.i)])
             ELSE LET s1 == RngNext(st.rng)
                      s2 == RngNext(s1)
                      base_x == (g.plot_width * (st.i + 1)) \div (n + 1)
                      x == np_clip(base_x + uniform(JITTER_X, s1),
                                   CLIP_INSET, g.plot_width - CLIP_INSET)
                      y == np_clip(row_y_positions(g)[st.row_idx + 1]
                                       + uniform(JITTER_Y, s2),
                                   CLIP_INSET, g.plot_length - CLIP_INSET)
                      species == plant_types[Len(st.positions) + 1]
                  IN  place_rows(g, plant_types, total_plants,
                          [st EXCEPT !.i = @ + 1, !.rng = s2,
                                     !.positions = Append(@, <<species, x, y>>)])

\* generate_intercrop_positions(g) called with the global generator in state
\* s: the layout returned, or raised (line 115 divides by plot_area)
generate_intercrop_positions(g, s) ==
    LET plot_area == g.plot_width * g.plot_length
        bean_emerged ==
            emerged_count(g.bean_density, plot_area, g.bean_emergence)
        wheat_emerged ==
            emerged_count(g.wheat_density, plot_area, g.wheat_emergence)
        total_plants == bean_emerged + wheat_emerged
        plant_types == [j \in 1..total_plants |->
                           IF j <= bean_emerged THEN "bean" ELSE "wheat"]
        sh == np_random_shuffle(plant_types, total_plants,
                                np_random_seed(g.seed, s))
        st == place_rows(g, sh.list, total_plants,
                  [row_idx |-> 0, i |-> 0, positions |-> <<>>,
                   rows |-> <<>>, rng |-> sh.rng])
    IN  [raised |-> (plot_area = 0),
         positions |-> IF plot_area = 0 THEN <<>> ELSE st.positions,
         rows |-> st.rows, total_plants |-> total_plants, rng |-> st.rng]

\* the species of the layout entries
species_of(pos) == [j \in 1..Len(pos) |-> pos[j][1]]

\* plants.py 153-183: what build_plants asks the growth engine to build, in
\* build order (bean entries, then wheat entries): the entry's coordinates
\* plus the margin, at the initial age
build_plants_placedMutant(pos, initial_age, m) ==
    LET inst(sp) ==
            [j \in 1..Len(Idx(species_of(pos), sp)) |->
                LET e == Idx(species_of(pos), sp)[j]
                IN  [species |-> sp, entry |-> e, x |-> pos[e][2] + m,
                     y |-> pos[e][3], z |-> 0, age |-> initial_age]]
    IN  inst("bean") \o inst("wheat")
build_plants_placed(pos, initial_age, m) ==
    LET inst(sp) ==
            [j \in 1..Len(Idx(species_of(pos), sp)) |->
                LET e == Idx(species_of(pos), sp)[j]
                IN  [species |-> sp, entry |-> e, x |-> pos[e][2] + m,
                     y |-> pos[e][3] + m, z |-> 0, age |-> initial_age]]
    IN  inst("bean") \o inst("wheat")

\* the argument tuples the generator is explored with
GenInputs ==
    {ScenarioA} \cup
    {[plot_width |-> w, plot_length |-> l, n_rows |-> n, row_spacing |-> 210,
      bean_density |-> bd, wheat_density |-> wd,
      bean_emergence |-> BEAN_EMERGENCE_RATE,
      wheat_emergence |-> WHEAT_EMERGENCE_RATE, seed |-> sd] :
        w \in {0, 80, 1000}, l \in {300, 1000}, n \in {1, 4},
        bd \in {0, 36}, wd \in {0, 18}, sd \in {42, 7}}

\* the command lines of the scene-building runs: camera on or off
ArgsScene ==
    {a \in ArgsDefault :
        /\ ~a.segmentation /\ ~a.save /\ a.no_interactive
        /\ a.camera_type = "rgb" /\ a.growth_days = DEFAULT_GROWTH_DAYS}

\* main after setup_helios_context has returned (line 222), about to build
\* the scene for the generator arguments gin
InitGen ==
    /\ PureIdle
    /\ args \in ArgsScene
    /\ available = Range(RequiredPlugins)
    /\ layout = <<>>
    /\ pc = "create_soil"
    /\ outcome = "running"
    /\ context = TRUE
    /\ uuids = {}
    /\ primStr = {}
    /\ primFloat = {}
    /\ ground_uuid = 0
    /\ margin = 0
    /\ positions = <<>>
    /\ plant_species_map = <<>>
    /\ sessions = {}
    /\ opened = {}
    /\ calls = Logged(setup_helios_context_calls, 0)
    /\ bands = <<>>
    /\ solar_info = FALSE
    /\ output_folder = NoValue
    /\ primary_image = None
    /\ numbered = {}
    /\ files = {}
    /\ printed = {"All plugins available"}
    /\ stageLog = <<"INIT", "SCENE_BUILT">>
    /\ finished = {"INIT"}
    /\ gin \in GenInputs
    /\ rng = 0
    /\ results = <<>>
    /\ placed = <<>>

\* what an invocation of the generator, entered with the global generator in
\* state s, leaves behind for its caller
Outcome(r, s) ==
    [raised |-> r.raised, positions |-> r.positions, rows |-> r.rows,
     total_plants |-> r.total_plants, rng_at_call |-> s,
     rng_after |-> r.rng]

\* main 235: positions = generate_intercrop_positions(...)
GenPositions ==
    /\ pc = "generate_positions"
    /\ LET r == generate_intercrop_positions(gin, rng)
       IN  /\ results' = Append(results, Outcome(r, rng))
           /\ rng' = r.rng
           /\ IF r.raised
              THEN /\ UNCHANGED positions
                   /\ Uncaught("SCENE_BUILT")
              ELSE /\ positions' = r.positions
                   /\ pc' = "open_growth"
                   /\ UNCHANGED <<outcome, finished>>
    /\ UNCHANGED <<inputVars, pureVars, sceneVars, plant_species_map, bands, solar_info,
                   output_folder, primary_image, sessions, opened, calls,
                   diskVars, printed, stageLog, gin, placed>>

\* main 257: plant_species_map = build_plants(context, pa, positions,
\* DEFAULT_INITIAL_AGE, margin), every engine call returning
GenBuildPlants ==
    /\ pc = "build_plants"
    /\ placed' = build_plants_placed(positions, DEFAULT_INITIAL_AGE, margin)
    /\ plant_species_map' = build_plants_tags(species_of(positions))
    /\ calls' = calls \o Logged(build_plants_calls(species_of(positions)), 0)
    /\ uuids' = uuids \cup NewUUIDs(uuids, Len(positions) * PrimsPerPlant)
    /\ pc' = "grow_plants"
    /\ UNCHANGED <<inputVars, pureVars, context, primStr, primFloat, ground_uuid, margin,
                   positions, bands, solar_info, output_folder, primary_image,
                   outcome, sessions, opened, diskVars, printed, stageLog,
                   finished, gin, rng, results>>

RECURSIVE DrawsSince(_, _)
\* the draws that take the global generator from state s0 to state s
DrawsSince(s0, s) == IF s0 = s THEN 0 ELSE 1 + DrawsSince(RngNext(s0), s)

\* other code draws from the global generator between two invocations
OtherDraw ==
    /\ pc = "scene_stats"
    /\ Len(results) < MaxInvocations
    /\ DrawsSince(results[Len(results)].rng_after, rng) < MaxDraws
    /\ rng' = RngNext(rng)
    /\ UNCHANGED <<inputVars, pureVars, sceneVars, mainVars, pc, outcome, sessions,
                   opened, calls, diskVars, printed, stageLog, finished, gin,
                   results, placed>>

\* the generator is invoked again with the same arguments
InvokeAgain ==
    /\ pc = "scene_stats"
    /\ Len(results) < MaxInvocations
    /\ LET r == generate_intercrop_positions(gin, rng)
       IN  /\ results' = Append(results, Outcome(r, rng))
           /\ rng' = r.rng
    /\ UNCHANGED <<inputVars, pureVars, sceneVars, mainVars, pc, outcome, sessions,
                   opened, calls, diskVars, printed, stageLog, finished, gin,
                   placed>>

NextGen ==
    \/ CreateSoilPlane
    \/ GenPositions
    \/ OpenGrowth
    \/ SetupCollision
    \/ GenBuildPlants
    \/ GrowPlants
    \/ OtherDraw
    \/ InvokeAgain

SpecGen == InitGen /\ [][NextGen]_vars

(***************************************************************************)
(* Camera geometry (geometry/camera.py, radiation/imaging.py).  Lengths in *)
(* millimetres, rounded down.                                              *)
(***************************************************************************)
RECURSIVE isqrt_between(_, _, _)
\* the largest r in lo..hi with r * r <= n
isqrt_between(n, lo, hi) ==
    IF lo >= hi THEN lo
    ELSE LET mid == (lo + hi + 1) \div 2
         IN  IF mid * mid <= n THEN isqrt_between(n, mid, hi)
             ELSE isqrt_between(n, lo, mid - 1)

\* np.sqrt
np_sqrt(n) == isqrt_between(n, 0, 40000)

\* np.tan(np.radians(fov_degrees) / 2.0), in thousandths
np_tan_half(fov_degrees) ==
    CASE fov_degrees = 40 -> 364
      [] fov_degrees = 60 -> 577
      [] fov_degrees = 90 -> 1000

\* camera.py 48-59
calculate_nadir_camera_height(plot_width, plot_length, fov_degrees, margin_factor) ==
    LET diagonal == np_sqrt(plot_width * plot_width
                                + plot_length * plot_length)
        height == (diagonal * 1000) \div (2 * np_tan_half(fov_degrees))
    IN  (height * margin_factor) \div 10

\* soil.py 47-58: the footprint of the ground patch
create_soil_plane_size(width, length, m) == <<width + 2 * m, length + 2 * m>>

\* camera.py 84-99: (camera_position, lookat_point)
calculate_camera_position(plot_width, plot_length, m, fov_degrees) ==
    LET soil_width == plot_width + 2 * m
        soil_length == plot_length + 2 * m
        camera_height ==
            calculate_nadir_camera_height(soil_width, soil_length,
                                          fov_degrees, MARGIN_FACTOR)
    IN  << <<soil_width \div 2, soil_length \div 2, camera_height>>,
           <<soil_width \div 2, soil_length \div 2, 0>> >>

\* imaging.py 155-187: (camera_position, camera_center), the pose handed to
\* addRadiationCamera
setup_radiation_cameraMutant(plot_width, plot_length, m, fov) ==
    LET camera_height ==
            calculate_nadir_camera_height(plot_width, plot_length, fov,
                                          MARGIN_FACTOR)
    IN  << <<plot_width \div 2, plot_length \div 2, camera_height>>,
           <<plot_width \div 2, plot_length \div 2, 0>> >>
setup_radiation_camera(plot_width, plot_length, m, fov) ==
    LET soil_width == plot_width + 2 * m
        soil_length == plot_length + 2 * m
        camera_height ==
            calculate_nadir_camera_height(soil_width, soil_length, fov,
                                          MARGIN_FACTOR)
    IN  << <<soil_width \div 2, soil_length \div 2, camera_height>>,
           <<soil_width \div 2, soil_length \div 2, 0>> >>

\* the footprints, margins and fields of view the functions are explored
\* with
CamInputs ==
    {CamDefault} \cup
    {[plot_width |-> w, plot_length |-> l, margin |-> m, fov |-> f] :
        w \in {500, 1000, 2000}, l \in {1000, 1500}, m \in {0, 300},
        f \in {40, 60, 90}}

\* the state of the model outside the pipeline of main: nothing built,
\* nothing printed
PipelineIdle ==
    /\ args \in {a \in ArgsScene : a.camera}
    /\ available = Range(RequiredPlugins)
    /\ layout = <<>>
    /\ pc = "check_plugins"
    /\ outcome = "running"
    /\ context = FALSE
    /\ uuids = {}
    /\ primStr = {}
    /\ primFloat = {}
    /\ ground_uuid = 0
    /\ margin = 0
    /\ positions = <<>>
    /\ plant_species_map = <<>>
    /\ sessions = {}
    /\ opened = {}
    /\ calls = <<>>
    /\ bands = <<>>
    /\ solar_info = FALSE
    /\ output_folder = NoValue
    /\ primary_image = None
    /\ files = {}
    /\ printed = {}
    /\ stageLog = <<>>
    /\ finished = {}
    /\ gin = ScenarioA
    /\ rng = 0
    /\ results = <<>>
    /\ placed = <<>>

InitCam ==
    /\ PipelineIdle
    /\ numbered = {}
    /\ cin \in CamInputs
    /\ cam = CamNone
    /\ ignored = {}
    /\ folder_log = <<>>

pipelineVars ==
    <<inputVars, genVars, sceneVars, mainVars, pc, outcome, sessions, opened,
      calls, files, printed, stageLog, finished>>

\* main 226: ground_uuid, margin = create_soil_plane(context, width, length)
CamCreateSoil ==
    /\ cam.soil = NoValue
    /\ cam' = [cam EXCEPT
                 !.soil = create_soil_plane_size(cin.plot_width,
                                                 cin.plot_length, cin.margin),
                 !.margin = <<cin.margin>>]
    /\ UNCHANGED <<pipelineVars, numbered, cin, ignored, folder_log>>

\* main 312: setup_radiation_camera(radiation, bands, width, length, margin,
\* ...) with the margin create_soil_plane returned
CamSetupCamera ==
    /\ cam.margin # NoValue
    /\ cam.pose = NoValue
    /\ cam' = [cam EXCEPT
                 !.pose = setup_radiation_camera(cin.plot_width,
                              cin.plot_length, cam.margin[1], cin.fov)]
    /\ UNCHANGED <<pipelineVars, numbered, cin, ignored, folder_log>>

\* calculate_camera_position(width, length, margin, fov)
CamCalculatePosition ==
    /\ cam.position = NoValue
    /\ cam' = [cam EXCEPT
                 !.position = calculate_camera_position(cin.plot_width,
                                  cin.plot_length, cin.margin, cin.fov)]
    /\ UNCHANGED <<pipelineVars, numbered, cin, ignored, folder_log>>

\* calculate_nadir_camera_height(width, length, fov_degrees=fov)
CamHeight ==
    /\ cam.height = NoValue
    /\ cam' = [cam EXCEPT
                 !.height = <<calculate_nadir_camera_height(cin.plot_width,
                                 cin.plot_length, cin.fov, MARGIN_FACTOR)>>]
    /\ UNCHANGED <<pipelineVars, numbered, cin, ignored, folder_log>>

NextCam ==
    \/ CamCreateSoil
    \/ CamSetupCamera
    \/ CamCalculatePosition
    \/ CamHeight

SpecCam == InitCam /\ [][NextCam]_vars

(***************************************************************************)
(* Output folder numbering (utils/file_utils.py).                          *)
(***************************************************************************)
\* the entries of the base directory: the numbered folders and the entries
\* that are none (plain files, directories whose name is not all digits)
base_entries(folders, others) ==
    {[is_dir |-> TRUE, isdigit |-> TRUE, num |-> n] : n \in folders}
        \cup others

\* file_utils.py 37-40: int(d.name) for the directories with all-digit names
existing_folders(entries) ==
    {d.num : d \in {e \in entries : e.is_dir /\ e.isdigit}}

\* file_utils.py 44: mkdir(parents=True, exist_ok=True) raises
\* FileExistsError when the path exists and is no directory
mkdir_raises(entries, n) ==
    \E e \in entries : ~e.is_dir /\ e.isdigit /\ e.num = n

\* entries that are no numbered folder: a directory "images", a plain file
\* "notes.txt" (num 0: the name is no number), a plain file named "2"
IgnoredPool ==
    {[is_dir |-> TRUE, isdigit |-> FALSE, num |-> 0],
     [is_dir |-> FALSE, isdigit |-> FALSE, num |-> 0],
     [is_dir |-> FALSE, isdigit |-> TRUE, num |-> 2]}

InitFolder ==
    /\ PipelineIdle
    /\ cin = CamDefault
    /\ cam = CamNone
    /\ ignored \in SUBSET IgnoredPool
    /\ numbered \in
          {F \in SUBSET (1..MaxFolder) :
              \A e \in ignored : e.isdigit => e.num \notin F}
    /\ folder_log = <<>>

\* main 287-288 of one more run with --save on the same base directory:
\* output_folder = get_next_output_folder(args.output_dir)
GetNextOutputFolder ==
    /\ Len(folder_log) < MaxRuns
    /\ LET entries == base_entries(numbered, ignored)
           n == next_num(existing_folders(entries))
       IN  \E io_ok \in BOOLEAN :
            LET raised == ~io_ok \/ mkdir_raises(entries, n)
            IN  /\ folder_log' = Append(folder_log,
                      [before |-> numbered, num |-> n, raised |-> raised])
                /\ numbered' = IF raised THEN numbered
                               ELSE numbered \cup {n}
    /\ UNCHANGED <<pipelineVars, cin, cam, ignored>>

\* between two runs somebody creates a numbered folder in the base directory
OtherFolder ==
    /\ Len(folder_log) < MaxRuns
    /\ \E n \in 1..MaxFolder :
        /\ n \notin numbered
        /\ ~mkdir_raises(ignored, n)
        /\ numbered' = numbered \cup {n}
    /\ UNCHANGED <<pipelineVars, cin, cam, ignored, folder_log>>

NextFolder ==
    \/ GetNextOutputFolder
    \/ OtherFolder

SpecFolder == InitFolder /\ [][NextFolder]_vars

(***************************************************************************)
(* Plant ages (main 190-195, 246-262): scene building for command lines    *)
(* with per-species age overrides.                                         *)
(***************************************************************************)
\* the ages given on the command line: none, or a number of days below, at
\* or above the age the instances are built at
AgeOverrides == {NoValue, <<3>>, <<DEFAULT_INITIAL_AGE>>, <<20>>, <<60>>}

\* the command lines of the age runs: --growth-days, --bean-age, --wheat-age
ArgsAges ==
    [camera : {FALSE}, camera_type : {"rgb"}, segmentation : {FALSE},
     save : {FALSE}, no_interactive : {TRUE},
     growth_days : {DEFAULT_INITIAL_AGE, DEFAULT_GROWTH_DAYS},
     bean_age : AgeOverrides, wheat_age : AgeOverrides,
     use_sky_dome : {FALSE}, show_grid : {FALSE},
     soil_subdivisions : {MaxSubdiv}]

\* main after setup_helios_context has returned (line 222), about to build
\* the scene for the layout the generator returns
InitAge ==
    /\ PureIdle
    /\ args \in ArgsAges
    /\ available = Range(RequiredPlugins)
    /\ layout \in Layouts
    /\ pc = "create_soil"
    /\ outcome = "running"
    /\ context = TRUE
    /\ uuids = {}
    /\ primStr = {}
    /\ primFloat = {}
    /\ ground_uuid = 0
    /\ margin = 0
    /\ positions = <<>>
    /\ plant_species_map = <<>>
    /\ sessions = {}
    /\ opened = {}
    /\ calls = Logged(setup_helios_context_calls, 0)
    /\ bands = <<>>
    /\ solar_info = FALSE
    /\ output_folder = NoValue
    /\ primary_image = None
    /\ numbered = {}
    /\ files = {}
    /\ printed = {"All plugins available"}
    /\ stageLog = <<"INIT", "SCENE_BUILT">>
    /\ finished = {"INIT"}
    /\ gin = ScenarioA
    /\ rng = 0
    /\ results = <<>>
    /\ placed = <<>>

NextAge ==
    \/ CreateSoilPlane
    \/ GeneratePositions
    \/ OpenGrowth
    \/ SetupCollision
    \/ BuildPlants
    \/ GrowPlants

SpecAge == InitAge /\ [][NextAge]_vars

(***************************************************************************)
(* Properties.                                                             *)
(***************************************************************************)
AllPluginsAvailable == Range(RequiredPlugins) \subseteq available
LastStage == IF stageLog = <<>> THEN None ELSE stageLog[Len(stageLog)]
StageIndex(s) == CHOOSE j \in 1..Len(StageOrder) : StageOrder[j] = s
\* some call of method m was made / raised / returned
Attempted(m) == \E j \in 1..Len(calls) : calls[j].m = m
Raised(m) == \E j \in 1..Len(calls) : calls[j].m = m /\ ~calls[j].ok
ReturnedOk(m) == \E j \in 1..Len(calls) : calls[j].m = m /\ calls[j].ok
NoCallRaised == \A j \in 1..Len(calls) : calls[j].ok
CallsOf(m) == SelectSeq(calls, LAMBDA c : c.m = m)

\* C1: once the INIT probe has succeeded, a failure in any later stage is
\* caught and the run still ends in DONE: main prints COMPLETE and returns 0.
C1_LaterFailuresNeverAbort ==
    (pc = "exit" /\ AllPluginsAvailable)
        => (outcome = "returned0" /\ "COMPLETE" \in printed)

\* C2: if a required plugin is unavailable, main returns a non-zero status
\* and nothing is ever created in that run: no context, ground surface, plant
\* instance, engine session or output folder, and no engine call is made.
C2_MissingPluginAbortsBeforeAllocation ==
    ~AllPluginsAvailable =>
        /\ pc \in {"check_plugins", "exit"}
        /\ pc = "exit" => outcome = "returned1"
        /\ context = FALSE /\ uuids = {} /\ ground_uuid = 0
        /\ plant_species_map = <<>> /\ opened = {} /\ sessions = {}
        /\ numbered = {} /\ files = {} /\ output_folder = NoValue
        /\ calls = <<>>
        /\ Range(stageLog) \subseteq {"INIT"}

\* C2 witness: a run with one plugin missing and the last-probed one present
\* has returned 1
C2_Witness ==
    /\ pc = "exit" /\ outcome = "returned1"
    /\ "plantarchitecture" \notin available
    /\ "solarposition" \in available

\* C3: stages run at most once each and only in pipeline order, a stage is
\* entered only after every stage entered before it has been left, an
\* optional stage runs only if it was requested, and a run that returns 0 has
\* run every mandatory stage and exactly the requested optional ones.
C3_StagesInOrderAndGated ==
    /\ \A j, k \in 1..Len(stageLog) :
          j < k => StageIndex(stageLog[j]) < StageIndex(stageLog[k])
    /\ \A j \in 1..(Len(stageLog) - 1) : stageLog[j] \in finished
    /\ finished \subseteq Range(stageLog)
    /\ "LABELED" \in Range(stageLog) => args.segmentation
    /\ "IMAGED" \in Range(stageLog) => args.camera
    /\ "EXPORTED" \in Range(stageLog) => args.save
    /\ "VISUALIZED" \in Range(stageLog) => ~args.no_interactive
    /\ outcome = "returned0" =>
          /\ {"INIT", "SCENE_BUILT", "SOLAR_COMPUTED", "DONE"}
                \subseteq Range(stageLog)
          /\ args.segmentation => "LABELED" \in Range(stageLog)
          /\ args.camera => "IMAGED" \in Range(stageLog)
          /\ args.save => "EXPORTED" \in Range(stageLog)
          /\ ~args.no_interactive => "VISUALIZED" \in Range(stageLog)
          /\ finished = Range(stageLog)

\* C3 witness: a run that went through all eight stages
C3_Witness == outcome = "returned0" /\ stageLog = StageOrder

\* C4: a failure at any step of the IMAGED stage, the radiative-property
\* assignment included, is caught: the run is never aborted inside IMAGED.
C4_ImagingFailureNeverAborts ==
    ~(outcome = "raised" /\ LastStage = "IMAGED")

SolarMethods ==
    {"SolarPosition", "getSunDirectionVector", "getSunElevation",
     "getSunAzimuth", "getSolarFlux"}
SolarFailed == \E m \in SolarMethods : Raised(m)

\* C5: a failure of the solar computation aborts the run only if imaging or
\* interactive viewing was requested; with neither requested the run goes on.
C5_SolarFailureFatalOnlyIfNeeded ==
    (SolarFailed /\ ~args.camera /\ args.no_interactive)
        => outcome # "raised"

\* C6: after a failed PLY write the OBJ write and the manifest write are
\* still attempted, and the run is not aborted.
C6_PlyFailureStillWritesObjAndManifest ==
    (pc = "exit" /\ Raised("writePLY"))
        => (Attempted("writeOBJ") /\ Attempted("open")
            /\ outcome # "raised")

\* the stage that opens each engine session
SessionStage ==
    [growth |-> "SCENE_BUILT", ephemeris |-> "SOLAR_COMPUTED",
     radiation |-> "IMAGED", render |-> "VISUALIZED"]

\* C7: every engine session is released on every exit path of the stage that
\* opened it: an open session belongs to the stage in progress, a stage that
\* has been left holds no open session, and none is open when main has ended.
C7_SessionsReleasedOnStageExit ==
    /\ \A s \in sessions :
          /\ LastStage = SessionStage[s]
          /\ SessionStage[s] \notin finished
    /\ pc = "exit" => sessions = {}
    /\ sessions \subseteq opened

\* C7 witness: all four sessions were opened in one run, the radiation stage
\* and the render stage were both left by an exception, and none is open
C7_Witness ==
    /\ opened = {"growth", "ephemeris", "radiation", "render"}
    /\ Raised("runBand") /\ Raised("plotInteractive")
    /\ pc = "exit" /\ sessions = {}

\* C8: runBand is called at most once in a run, always with the complete band
\* list of the camera type, and exactly once when the simulation step is
\* reached (updateGeometry has returned).
C8_OneCombinedSimulationCall ==
    /\ Len(CallsOf("runBand")) <= 1
    /\ \A j \in 1..Len(CallsOf("runBand")) :
          CallsOf("runBand")[j].a =
              IF args.camera_type = "multispectral"
              THEN <<"Red", "Green", "Blue", "NIR">>
              ELSE <<"Red", "Green", "Blue">>
    /\ ReturnedOk("updateGeometry") => Len(CallsOf("runBand")) = 1

\* C8 witness: a multispectral simulation has completed
C8_Witness ==
    /\ args.camera_type = "multispectral"
    /\ ReturnedOk("runBand")

AllBands == {"Red", "Green", "Blue", "NIR"}
\* bands some identity holds a radiative property for
PropBands ==
    LET keys == {d[2] : d \in primFloat}
    IN  {b \in AllBands :
            "reflectivity_" \o b \in keys \/ "transmissivity_" \o b \in keys}
\* bands named (as single argument) by the calls of method m
BandsOf(m) == {calls[j].a[1] : j \in {i \in 1..Len(calls) : calls[i].m = m}}
PerBandMethods ==
    {"setSourceFlux", "setDirectRayCount", "setDiffuseRayCount",
     "setDiffuseRadiationFlux", "setScatteringDepth", "disableEmission"}

\* C9: the bands radiative properties are assigned for are exactly the bands
\* declared on the radiation engine, and the sun source, the per-band
\* rendering configuration, the camera and the simulation get that band set.
C9_OneBandSetThroughoutImaging ==
    LET P == PropBands
        declared == BandsOf("addRadiationBand")
        perBand == [m \in PerBandMethods |-> BandsOf(m)]
    IN  /\ declared \subseteq P
        /\ bands # <<>> => (declared = P /\ Range(bands) = P)
        /\ \A m \in PerBandMethods : perBand[m] \subseteq P
        /\ Attempted("setDirectRayCount") => perBand["setSourceFlux"] = P
        /\ Attempted("addRadiationCamera") =>
              \A m \in PerBandMethods : perBand[m] = P
        /\ \A j \in 1..Len(calls) :
              calls[j].m \in {"addRadiationCamera", "runBand"}
                  => Range(calls[j].a) = P

\* C9 witness: a multispectral run configured all four bands and simulated
C9_Witness ==
    /\ PropBands = AllBands
    /\ BandsOf("addRadiationBand") = AllBands
    /\ Attempted("runBand")

SaveWarning == "Use --save to export camera images"

\* C10: an image is written only with camera and save; masks only if also
\* segmentation was requested and the primary image was produced; without
\* save nothing is written, the simulation still runs, the warning is
\* printed, and a run in which no call raised returns 0.
C10_ImagingOutputsGated ==
    /\ "image" \in files => (args.camera /\ args.save)
    /\ "masks" \in files =>
          /\ args.camera /\ args.save /\ args.segmentation
          /\ primary_image # None /\ "image" \in files
    /\ Attempted("writeImageSegmentationMasks") =>
          (args.segmentation /\ primary_image # None)
    /\ ~args.save =>
          /\ files = {} /\ numbered = {} /\ output_folder = NoValue
          /\ (ReturnedOk("runBand") /\ pc # "save_images")
                => SaveWarning \in printed
    /\ SaveWarning \in printed => (ReturnedOk("runBand") /\ files \subseteq
                                      {"base", "scene.ply", "scene.obj",
                                       "scene_info.md"})
    /\ (args.camera /\ ~args.save /\ AllPluginsAvailable /\ pc = "exit"
            /\ NoCallRaised)
          => (outcome = "returned0" /\ SaveWarning \in printed)

\* C10 witness: scenario B has run to the end
C10_Witness ==
    /\ args.camera /\ args.camera_type = "rgb" /\ args.segmentation
    /\ ~args.save
    /\ ReturnedOk("runBand")
    /\ outcome = "returned0"

\* C11: the interactive view is opened if and only if no-interactive is unset,
\* whatever happened in the IMAGED and EXPORTED stages: with the flag set no
\* render session is ever created, and a run with the flag unset that got
\* past the solar stage and the output folder enters VISUALIZED.
C11_ViewOpenedIffInteractive ==
    /\ args.no_interactive =>
          /\ "render" \notin opened
          /\ ~Attempted("Visualizer")
          /\ "VISUALIZED" \notin Range(stageLog)
    /\ (pc = "exit" /\ ~args.no_interactive /\ "SOLAR_COMPUTED" \in finished
            /\ LastStage # "SOLAR_COMPUTED")
          => "VISUALIZED" \in Range(stageLog)


(***************************************************************************)
(* Position generator and scene building (geometry/plants.py).             *)
(***************************************************************************)
\* entries of a layout with the given species
Count(pos, sp) == Cardinality({j \in 1..Len(pos) : pos[j][1] = sp})

RECURSIVE SumSeq(_)
SumSeq(xs) == IF xs = <<>> THEN 0 ELSE Head(xs) + SumSeq(Tail(xs))

\* the invocations of the generator that returned a layout
ReturnedLayouts == {k \in 1..Len(results) : ~results[k].raised}

PlotArea == gin.plot_width * gin.plot_length

\* the plants are built (build_plants has returned)
PlantsBuilt == pc \in {"grow_plants", "scene_stats"}

\* C12 (as amended): every layout returned by generate_intercrop_positions
\* holds floor(floor(bean_density * plot_area) * bean_emergence) bean entries
\* (the seed count is truncated first, then the emerged count), likewise for
\* wheat, and its length is the sum of the two.
C12_CountLawTwoTruncations ==
    \A k \in ReturnedLayouts :
        LET p == results[k].positions
        IN  /\ Count(p, "bean")
                 = (((gin.bean_density * PlotArea) \div 1000000)
                        * gin.bean_emergence) \div 1000
            /\ Count(p, "wheat")
                 = (((gin.wheat_density * PlotArea) \div 1000000)
                        * gin.wheat_emergence) \div 1000
            /\ Len(p) = Count(p, "bean") + Count(p, "wheat")

\* C12 witness: a returned layout with 8 bean entries where one truncation of
\* the triple product gives 9
C12_Witness ==
    \E k \in ReturnedLayouts :
        /\ Count(results[k].positions, "bean") = 8
        /\ TripleProductFloor(gin.bean_density, PlotArea,
                              gin.bean_emergence) = 9

\* C12 as stated: the bean and wheat counts of a returned layout are the
\* triple products density * plot_area * emergence truncated once.
C12_CountLawSingleTruncation ==
    \A k \in ReturnedLayouts :
        LET p == results[k].positions
        IN  /\ Count(p, "bean")
                 = TripleProductFloor(gin.bean_density, PlotArea,
                                      gin.bean_emergence)
            /\ Count(p, "wheat")
                 = TripleProductFloor(gin.wheat_density, PlotArea,
                                      gin.wheat_emergence)
            /\ Len(p) = Count(p, "bean") + Count(p, "wheat")

\* C13: every emitted position has 0.05 <= x <= width - 0.05 and
\* 0.05 <= y <= length - 0.05.
C13_PositionsInsideInset ==
    \A k \in ReturnedLayouts :
        \A j \in 1..Len(results[k].positions) :
            LET e == results[k].positions[j]
            IN  /\ CLIP_INSET <= e[2] /\ e[2] <= gin.plot_width - CLIP_INSET
                /\ CLIP_INSET <= e[3] /\ e[3] <= gin.plot_length - CLIP_INSET

\* C14: each row gets total // n_rows plants, exactly the first
\* total % n_rows rows get one more; two rows differ by at most one plant
\* and the rows sum to the total.
C14_RowBalance ==
    \A k \in 1..Len(results) :
        LET r == results[k]
            n == gin.n_rows
            t == r.total_plants
        IN  /\ Len(r.rows) = n
            /\ \A j \in 1..n :
                  r.rows[j] = (t \div n) + (IF j <= t % n THEN 1 ELSE 0)
            /\ \A a, b \in 1..n :
                  r.rows[a] - r.rows[b] <= 1 /\ r.rows[b] - r.rows[a] <= 1
            /\ SumSeq(r.rows) = t
            /\ ~r.raised => Len(r.positions) = t

\* C14 witness: a layout whose total does not divide by the row count
C14_Witness ==
    \E k \in ReturnedLayouts :
        /\ gin.n_rows = 4
        /\ results[k].total_plants % 4 = 3
        /\ results[k].rows[3] = results[k].rows[4] + 1

\* C15: two invocations with identical arguments return identical layouts,
\* whatever was drawn from the global generator between them.
C15_Determinism ==
    \A j, k \in 1..Len(results) :
        /\ results[j].raised = results[k].raised
        /\ results[j].positions = results[k].positions

\* C15 witness: two invocations entered with the global generator in
\* different states, returning a layout of both species
C15_Witness ==
    /\ Len(results) >= 2
    /\ results[1].rng_at_call # results[2].rng_at_call
    /\ Count(results[2].positions, "bean") > 0
    /\ Count(results[2].positions, "wheat") > 0

\* C16: a species of density zero contributes no position, and an invocation
\* whose total emerged count is zero returns the empty layout without
\* raising.
C16_ZeroTotalReturnsEmpty ==
    \A k \in 1..Len(results) :
        LET r == results[k]
        IN  /\ gin.bean_density = 0 => Count(r.positions, "bean") = 0
            /\ gin.wheat_density = 0 => Count(r.positions, "wheat") = 0
            /\ r.total_plants = 0 => ~r.raised /\ r.positions = <<>>

\* C17: with the arguments of scenario A the layout holds 31 bean and no
\* wheat entries, and once the plants are built the scene has its one ground
\* identity and a species map of 31 plant identities, with the camera stage
\* requested or not.
C17_ScenarioA ==
    gin = ScenarioA =>
        /\ \A k \in 1..Len(results) :
              /\ ~results[k].raised
              /\ Count(results[k].positions, "bean") = 31
              /\ Count(results[k].positions, "wheat") = 0
              /\ Len(results[k].positions) = 31
        /\ PlantsBuilt =>
              /\ ground_uuid \in uuids
              /\ Len(plant_species_map) = 31
              /\ Len(placed) = 31
              /\ \A j \in 1..31 : plant_species_map[j] = SPECIES_BEAN

\* C17 witness: scenario A built with the camera stage switched off
C17_Witness ==
    /\ gin = ScenarioA
    /\ ~args.camera
    /\ pc = "scene_stats"
    /\ Len(plant_species_map) = 31

\* C18: each plant instance is built at (x + margin, y + margin, 0) of its
\* layout entry, with the margin create_soil_plane returned added once per
\* axis for every instance; the layout is the generator's output for its
\* arguments alone.
C18_PlacedAtMarginOffset ==
    /\ PlantsBuilt =>
          /\ margin = create_soil_plane_margin
          /\ Len(placed) = Len(positions)
          /\ {placed[j].entry : j \in 1..Len(placed)} = 1..Len(positions)
          /\ \A j \in 1..Len(placed) :
                LET e == positions[placed[j].entry]
                IN  /\ placed[j].x = e[2] + margin
                    /\ placed[j].y = e[3] + margin
                    /\ placed[j].z = 0
    /\ \A k \in 1..Len(results) :
          results[k].positions
              = generate_intercrop_positions(
                    gin, results[k].rng_at_call).positions
    /\ (positions # <<>>) => positions = results[1].positions

\* C18 witness: plants of both species built beside a soil plane with a
\* margin
C18_Witness ==
    /\ pc = "scene_stats"
    /\ margin > 0
    /\ \E j \in 1..Len(placed) : placed[j].species = "bean"
    /\ \E j \in 1..Len(placed) : placed[j].species = "wheat"

\* C19: after build_plants the species map has one entry per layout
\* position, an instance built from a bean entry carries the bean tag and
\* one built from a wheat entry the wheat tag, the entries per species equal
\* the layout's counts, and every instance is built at the same initial age.
C19_SpeciesMapPerPosition ==
    PlantsBuilt =>
        /\ Len(plant_species_map) = Len(positions)
        /\ \A j \in 1..Len(placed) :
              /\ placed[j].species = positions[placed[j].entry][1]
              /\ plant_species_map[j]
                    = (IF placed[j].species = "bean" THEN SPECIES_BEAN
                       ELSE SPECIES_WHEAT)
              /\ placed[j].age = DEFAULT_INITIAL_AGE
        /\ Cardinality({j \in 1..Len(plant_species_map) :
                            plant_species_map[j] = SPECIES_BEAN})
              = Count(positions, "bean")
        /\ Cardinality({j \in 1..Len(plant_species_map) :
                            plant_species_map[j] = SPECIES_WHEAT})
              = Count(positions, "wheat")

\* C19 witness: a species map with bean and wheat tags
C19_Witness ==
    /\ PlantsBuilt
    /\ SPECIES_BEAN \in Range(plant_species_map)
    /\ SPECIES_WHEAT \in Range(plant_species_map)

\* the identities carrying the given plant_part label
LabelledAs(v) == {d[1] : d \in {e \in primStr : e[2] = "plant_part" /\ e[3] = v}}

\* apply_species_labels has returned (the LABELED stage ran to its end)
LabelsApplied == "Labeled primitives" \in printed

\* C20: after LABELED every identity of the scene store carries a plant_part
\* label, "ground" on the ground identity and "bean" on every other one,
\* whatever the species map holds; the returned counts are total = 1 + bean
\* count and wheat count = 0.
C20_EveryIdentityLabelled ==
    LabelsApplied =>
        LET ret == apply_species_labels_return(SortedSeq(uuids), ground_uuid)
        IN  /\ LabelledAs(PLANT_PART_GROUND) = {ground_uuid}
            /\ LabelledAs(PLANT_PART_BEAN) = uuids \ {ground_uuid}
            /\ \A d \in primStr :
                  d[2] = "plant_part"
                      => d[3] \in {PLANT_PART_GROUND, PLANT_PART_BEAN}
            /\ ret.labeled_count = 1 + ret.bean_primitives
            /\ ret.wheat_primitives = 0
            /\ ret.bean_primitives = Cardinality(LabelledAs(PLANT_PART_BEAN))

\* C20 witness: the labels are written in a scene that holds wheat plants
C20_Witness ==
    /\ LabelsApplied
    /\ SPECIES_WHEAT \in Range(plant_species_map)
    /\ Cardinality(uuids) > 1

(***************************************************************************)
(* Camera geometry.                                                        *)
(***************************************************************************)
\* C23: calculate_nadir_camera_height(1.0, 1.0, fov_degrees=60) with the
\* default margin factor returns a height strictly between 1.4 m and 1.8 m.
C23_UnitPlotHeightInRange ==
    (cam.height # NoValue /\ cin.plot_width = 1000 /\ cin.plot_length = 1000
        /\ cin.fov = 60)
        => (1400 < cam.height[1] /\ cam.height[1] < 1800)

\* C24: the camera of the imaging stage sits above the centre of the
\* footprint with the margin on both sides, the footprint of the ground
\* patch, at the height computed from that footprint, looking at the centre
\* at ground level; setup_radiation_camera and calculate_camera_position
\* give the same pose for the same width, length, margin and field of view.
C24_NadirPoseOverSoilFootprint ==
    /\ cam.pose # NoValue =>
          LET W == cin.plot_width + 2 * cin.margin
              L == cin.plot_length + 2 * cin.margin
              h == calculate_nadir_camera_height(W, L, cin.fov, MARGIN_FACTOR)
          IN  /\ cam.soil = <<W, L>>
              /\ cam.pose[1] = <<W \div 2, L \div 2, h>>
              /\ cam.pose[2] = <<W \div 2, L \div 2, 0>>
    /\ (cam.pose # NoValue /\ cam.position # NoValue)
          => cam.pose = cam.position

\* C24 witness: both functions have computed the pose for a plot with a
\* margin
C24_Witness ==
    /\ cam.pose # NoValue
    /\ cam.position # NoValue
    /\ cin.margin > 0
    /\ cin.plot_width # cin.plot_length

(***************************************************************************)
(* Output folder numbering.                                                *)
(***************************************************************************)
\* the calls of get_next_output_folder that returned a folder
ReturnedFolders == {k \in 1..Len(folder_log) : ~folder_log[k].raised}

\* C25: over a sequence of runs on one base directory every call of
\* get_next_output_folder that returns gives the folder numbered one more
\* than the largest numbered folder existing at the call (1 when there is
\* none); the folders returned are pairwise distinct, strictly increasing,
\* and none existed before its call.
C25_FreshIncreasingFolders ==
    /\ \A k \in ReturnedFolders :
          LET f == folder_log[k]
          IN  /\ f.num \notin f.before
              /\ \A n \in f.before : n < f.num
              /\ f.num = 1 \/ (f.num - 1) \in f.before
              /\ f.num \in numbered
    /\ \A j, k \in ReturnedFolders :
          j < k => folder_log[j].num < folder_log[k].num

\* C25 witness: two runs got folders, the first in a directory that held
\* numbered folders with a gap and entries that are no numbered folder
C25_Witness ==
    /\ Cardinality(ReturnedFolders) >= 2
    /\ folder_log[1].before = {1, 3}
    /\ ~folder_log[1].raised
    /\ Cardinality(ignored) >= 2

(***************************************************************************)
(* Order of the growth-engine calls.                                       *)
(***************************************************************************)
\* the positions in calls of the calls of method m
At(m) == {k \in 1..Len(calls) : calls[k].m = m}

\* C27: in SCENE_BUILT soft collision avoidance and the ground obstacle are
\* configured and enabled before any plant instance is built; a species'
\* model is loaded at most once and only if the layout holds that species;
\* every instance is built while its own species' model is the one loaded
\* last; advanceTime is called at most once, after all instances are built,
\* with nothing but model loads and instance builds since the collision
\* system was enabled.
C27_GrowthCallsOrdered ==
    LET builds == At("buildPlantInstanceFromLibrary")
        loads == At("loadPlantModelFromLibrary")
        advances == At("advanceTime")
        obstacle == At("enableSolidObstacleAvoidance")
        sp(b) == positions[calls[b].i][1]
    IN  /\ \A b \in builds :
              /\ \E k \in At("setSoftCollisionAvoidanceParameters") :
                    k < b /\ calls[k].ok
              /\ \E k \in At("enableSoftCollisionAvoidance") :
                    k < b /\ calls[k].ok
              /\ \E k \in obstacle :
                    k < b /\ calls[k].ok /\ calls[k].i = ground_uuid
        /\ \A j, k \in loads : calls[j].a = calls[k].a => j = k
        /\ \A k \in loads : Count(positions, calls[k].a[1]) > 0
        /\ \A b \in builds :
              \E k \in loads :
                 /\ k < b
                 /\ calls[k].a = <<sp(b)>>
                 /\ \A j \in loads : j < b => j <= k
        /\ Cardinality(advances) <= 1
        /\ \A t \in advances :
              /\ \A b \in builds : b < t /\ calls[b].ok
              /\ Cardinality(builds) = Len(positions)
              /\ \E e \in obstacle :
                    /\ e < t
                    /\ \A k \in (e + 1)..(t - 1) : k \in builds \cup loads

\* C27 witness: plants of both species were built and then grown
C27_Witness ==
    /\ \E t \in At("advanceTime") : calls[t].ok
    /\ Cardinality(At("loadPlantModelFromLibrary")) = 2
    /\ Cardinality(At("buildPlantInstanceFromLibrary")) >= 4

(***************************************************************************)
(* Soil plane.                                                             *)
(***************************************************************************)
\* create_soil_plane has returned to main
SoilReturned == ground_uuid # 0

\* C26: create_soil_plane does not fail over the texture: when the texture
\* file is not found or the textured surface cannot be added, a warning is
\* printed and the flat tile is added instead; whenever the function returns
\* it has added exactly one visual surface and returns the identity of the
\* ground patch and the margin.
C26_TextureFallback ==
    LET tex == At("addTrianglesFromArraysTextured")
        tile == At("addTile")
        patch == At("addPatch")
    IN  /\ \A k \in tex :
              ~calls[k].ok =>
                  /\ "Could not create textured soil" \in printed
                  /\ \E t \in tile : t = k + 1
        /\ (\E p \in patch : calls[p].ok) /\ tex = {} =>
              /\ "Built-in texture not found" \in printed
              /\ tile # {}
        /\ SoilReturned =>
              /\ Cardinality({k \in tex \cup tile : calls[k].ok}) = 1
              /\ ground_uuid \in uuids
              /\ margin = create_soil_plane_margin
        /\ (patch # {} /\ ~SoilReturned /\ pc = "exit") =>
              \E k \in patch \cup tile : k = Len(calls) /\ ~calls[k].ok

\* C26 witness: the textured surface could not be added, the tile was, and
\* the run went on
C26_Witness ==
    /\ \E k \in At("addTrianglesFromArraysTextured") : ~calls[k].ok
    /\ \E k \in At("addTile") : calls[k].ok
    /\ SoilReturned
    /\ pc = "generate_positions"

(***************************************************************************)
(* Radiative properties and the ground identity.                           *)
(***************************************************************************)
\* apply_radiative_properties has returned to main
RadPropsApplied == "Set reflectance properties" \in printed

\* the float data of identity u: <<key, value>>
DataOf(u) == {<<e[2], e[3]>> : e \in {x \in primFloat : x[1] = u}}

\* the values a set of <<key, value>> holds under key
ValuesIn(D, key) == {p[2] : p \in {q \in D : q[1] = key}}

\* the values stored for identity u under key
FloatsOf(u, key) == ValuesIn(DataOf(u), key)

\* the primitive-data keys of the coefficients of a band
reflectivity_key == [b \in AllBands |-> "reflectivity_" \o b]
transmissivity_key == [b \in AllBands |-> "transmissivity_" \o b]

\* the <<key, value>> pairs of the soil and of the leaves for a band list
SoilData(bs) ==
    UNION {{<<reflectivity_key[b], SOIL_REFLECTANCE[b]>>,
            <<transmissivity_key[b], 0>>} : b \in Range(bs)}
LeafData(bs) ==
    UNION {{<<reflectivity_key[b], LEAF_REFLECTANCE[b]>>,
            <<transmissivity_key[b], LEAF_TRANSMISSIVITY[b]>>} :
              b \in Range(bs)}

\* C21: after apply_radiative_properties with the bands of the camera type,
\* every identity of the scene store has a reflectivity and a transmissivity
\* for every band: the ground identity the soil reflectance and
\* transmissivity 0, every other identity the leaf reflectance and leaf
\* transmissivity of the band; the returned count is the number of
\* identities.
C21_EveryIdentityHasBandCoefficients ==
    RadPropsApplied =>
        LET B == Range(bands_for_props(args.camera_type))
            soil == SoilData(bands_for_props(args.camera_type))
            leaf == LeafData(bands_for_props(args.camera_type))
            keys == {reflectivity_key[b] : b \in B}
                        \cup {transmissivity_key[b] : b \in B}
            expected(u) == IF u = ground_uuid THEN soil ELSE leaf
        IN  /\ \A u \in uuids :
                  \A p \in expected(u) : <<u, p[1], p[2]>> \in primFloat
            /\ \A d \in primFloat :
                  d[2] \in keys => <<d[2], d[3]>> \in expected(d[1])
            /\ apply_radiative_properties_return(SortedSeq(uuids))
                  = Cardinality(uuids)
            /\ {d[1] : d \in primFloat} = uuids

\* C21 witness: the four bands of the multispectral camera were assigned in
\* a scene with a plant
C21_Witness ==
    /\ RadPropsApplied
    /\ args.camera_type = "multispectral"
    /\ Len(plant_species_map) > 0
    /\ FloatsOf(ground_uuid, "transmissivity_NIR") = {0}

\* the coefficient keys of all bands, and the leaf tables as <<key, value>>
CoefficientKeys ==
    {reflectivity_key[b] : b \in AllBands}
        \cup {transmissivity_key[b] : b \in AllBands}
LeafTable == LeafData(<<"Red", "Green", "Blue", "NIR">>)

\* C22: for every band of the vegetation tables (Red, Green, Blue, NIR)
\* leaf reflectance + leaf transmissivity is greater than 0 and at most 1;
\* the coefficients stored for the identities that are not the ground are
\* the table values of their band, so the stored pairs have the same sums.
C22_LeafCoefficientsSumToAtMostOne ==
    /\ DOMAIN LEAF_REFLECTANCE = {"Red", "Green", "Blue", "NIR"}
    /\ DOMAIN LEAF_TRANSMISSIVITY = DOMAIN LEAF_REFLECTANCE
    /\ \A b \in DOMAIN LEAF_REFLECTANCE :
          /\ 0 < LEAF_REFLECTANCE[b] + LEAF_TRANSMISSIVITY[b]
          /\ LEAF_REFLECTANCE[b] + LEAF_TRANSMISSIVITY[b] <= 100
    /\ \A d \in primFloat :
          (d[1] # ground_uuid /\ d[2] \in CoefficientKeys)
              => <<d[2], d[3]>> \in LeafTable

\* C22 witness: leaf coefficients of the NIR band are stored for a plant
C22_Witness ==
    \E u \in uuids \ {ground_uuid} :
        /\ FloatsOf(u, "reflectivity_NIR") = {LEAF_REFLECTANCE["NIR"]}
        /\ FloatsOf(u, "transmissivity_NIR") = {LEAF_TRANSMISSIVITY["NIR"]}

\* the identities of the visual soil surface create_soil_plane added next
\* to the ground patch
SoilSurface ==
    IF \E k \in At("addTrianglesFromArraysTextured") : calls[k].ok
    THEN (ground_uuid + 1)..(ground_uuid + 2)
    ELSE IF \E k \in At("addTile") : calls[k].ok
    THEN (ground_uuid + 1)
             ..(ground_uuid + args.soil_subdivisions * args.soil_subdivisions)
    ELSE {}

\* C30: both assignors treat one identity as ground, the patch whose
\* identity create_soil_plane returned; every other identity, the soil
\* surface included, gets the label "bean" and the leaf reflectance and
\* transmissivity.
C30_OnlyThePatchIsGround ==
    /\ SoilReturned => (SoilSurface # {} /\ SoilSurface \subseteq uuids
                            /\ ground_uuid \notin SoilSurface)
    /\ LabelsApplied =>
          /\ LabelledAs(PLANT_PART_GROUND) = {ground_uuid}
          /\ SoilSurface \subseteq LabelledAs(PLANT_PART_BEAN)
          /\ LabelledAs(PLANT_PART_BEAN) = uuids \ {ground_uuid}
    /\ RadPropsApplied =>
          /\ ground_uuid \in uuids
          /\ \A u \in uuids :
                \A b \in Range(bands_for_props(args.camera_type)) :
                    /\ <<u, reflectivity_key[b], SOIL_REFLECTANCE[b]>>
                            \in primFloat <=> u = ground_uuid
                    /\ u # ground_uuid =>
                          /\ <<u, reflectivity_key[b], LEAF_REFLECTANCE[b]>>
                                \in primFloat
                          /\ <<u, transmissivity_key[b],
                                LEAF_TRANSMISSIVITY[b]>> \in primFloat

\* C30 witness: labels and coefficients were assigned in a scene with a soil
\* surface and a plant
C30_Witness ==
    /\ LabelsApplied
    /\ RadPropsApplied
    /\ SoilSurface # {}
    /\ uuids \ ({ground_uuid} \cup SoilSurface) # {}

(***************************************************************************)
(* Order of the engine calls of the imaging stage.                         *)
(***************************************************************************)
\* the steps of the imaging stage, numbered in the order of main 303-328
StepOf ==
    [addRadiationBand |-> 1, addSunSphereRadiationSource |-> 2,
     setSourceFlux |-> 3, setDirectRayCount |-> 4, setDiffuseRayCount |-> 4,
     setDiffuseRadiationFlux |-> 4, setScatteringDepth |-> 4,
     disableEmission |-> 4, addRadiationCamera |-> 5, updateGeometry |-> 6,
     runBand |-> 7, writeCameraImage |-> 8, writeNormCameraImage |-> 9,
     writeImageSegmentationMasks |-> 10]

\* the calls of the imaging stage, in log order
ImagingCalls == SelectSeq(calls, LAMBDA c : c.m \in DOMAIN StepOf)

\* what the step just before step n must have completed, given the
\* <<method, arguments>> of the calls that returned and the band list
Completed(n, ok, bs) ==
    CASE n = 2 -> \A b \in Range(bs) : <<"addRadiationBand", <<b>>>> \in ok
      [] n = 3 -> <<"addSunSphereRadiationSource", <<>>>> \in ok
      [] n = 4 -> \A b \in Range(bs) : <<"setSourceFlux", <<b>>>> \in ok
      [] n = 5 -> \A b \in Range(bs) :
                    /\ <<"setDirectRayCount", <<b>>>> \in ok
                    /\ <<"setDiffuseRayCount", <<b>>>> \in ok
                    /\ <<"setScatteringDepth", <<b>>>> \in ok
                    /\ <<"disableEmission", <<b>>>> \in ok
      [] n = 6 -> <<"addRadiationCamera", bs>> \in ok
      [] n = 7 -> <<"updateGeometry", <<>>>> \in ok
      [] n = 8 -> <<"runBand", bs>> \in ok
      [] n \in {9, 10} -> <<"writeCameraImage", bs>> \in ok
      [] OTHER -> TRUE

\* C28: in IMAGED the radiative properties are assigned first; then every
\* band is declared; then the sun source is added and its flux set for every
\* band; then ray counts, scattering depth and emission-disable are set for
\* every band; then the camera is added; then the geometry is updated and
\* the simulation run; images are written after the simulation, masks after
\* the primary image.  No band is configured or simulated before it has
\* been declared.  (The steps never go back in the call log, a step is
\* entered only when the steps before it have returned for every band, and
\* the bands named by the flux, rendering, camera and simulation calls were
\* all declared.)
C28_ImagingCallsOrdered ==
    LET P == ImagingCalls
        n == Len(P)
        bs == camera_bands(args.camera_type)
        ok == {<<P[k].m, P[k].a>> : k \in {j \in 1..n : P[j].ok}}
        declared == {c[2][1] : c \in {d \in ok : d[1] = "addRadiationBand"}}
    IN  /\ ("radiation" \in opened \/ n > 0) => RadPropsApplied
        /\ \A k \in 1..(n - 1) : StepOf[P[k].m] <= StepOf[P[k + 1].m]
        /\ n > 0 => \A s \in 2..StepOf[P[n].m] :
                        (s # 9 \/ StepOf[P[n].m] = 9) => Completed(s, ok, bs)
        /\ \A k \in 1..n :
              StepOf[P[k].m] \in {3, 4, 5, 7}
                  => Range(P[k].a) \subseteq declared

\* C28 witness: a multispectral run went through the whole stage and wrote
\* the masks
C28_Witness ==
    /\ args.camera_type = "multispectral"
    /\ \E k \in At("writeImageSegmentationMasks") : calls[k].ok

(***************************************************************************)
(* Common growth time.                                                     *)
(***************************************************************************)
\* the age of a species: its override if given, the global growth days
\* otherwise
AgeOf(override) == IF override = NoValue THEN args.growth_days ELSE override[1]

\* max(0, bean_age - initial_age, wheat_age - initial_age)
CommonGrowthTime ==
    LET b == AgeOf(args.bean_age) - DEFAULT_INITIAL_AGE
        w == AgeOf(args.wheat_age) - DEFAULT_INITIAL_AGE
    IN  IF b <= 0 /\ w <= 0 THEN 0 ELSE IF b >= w THEN b ELSE w

\* the instances built before position k of the call log
BuiltBefore(k) ==
    Cardinality({j \in At("buildPlantInstanceFromLibrary") :
                    j < k /\ calls[j].ok})

====
